---- MODULE Spec2Model ----
(***************************************************************************)
(* State-machine model of the live courtroom voice session                 *)
(* (LiveCourtroomSession in src/unnamed/part_001) and of the one-shot      *)
(* text-to-speech service call it uses (src/unnamed/part_000).             *)
(*                                                                         *)
(* Every handler of the component is one action.  React state setters are  *)
(* no-ops once the component is unmounted; refs stay writable.             *)
(***************************************************************************)
EXTENDS Integers, Sequences, FiniteSets, TLC

\* ------------------------------------------------------------------ bounds
MaxClock == 1          \* Spec: audioContext.currentTime is explored in 0..MaxClock
MaxDur == 2            \* decoded buffer durations are drawn from 1..MaxDur
MaxFrames == 1         \* Spec: inbound audio frames per session
PlayClock == 3         \* PlaybackSpec: the clock is explored in 0..PlayClock
PlayFrames == 2        \* PlaybackSpec: inbound audio frames per session
MaxCapture == 1        \* onaudioprocess callbacks per session
MaxThen == 2           \* callbacks chained on the pending connect promise
MaxAccLen == 2         \* characters held by a transcript accumulator
MaxTranscripts == 1    \* a turn is committed while the log has fewer entries
OrderCapture == 3      \* CaptureSpec: onaudioprocess callbacks per session
MaxResponse == 1       \* articles in one answer of the news search
MaxResults == 2        \* new articles are loaded while the displayed list stays this short

VARIABLES
    status,                 \* useState<SessionStatus>
    transcripts,            \* useState<Transcript[]>
    currentUserInput,       \* useState('')  (live partial, display)
    currentJudgeOutput,     \* useState('')
    error,                  \* useState('')
    sessionPromiseRef,      \* "null" | "pending" | "resolved" | "rejected"
    audioContextRef,        \* input context: "none" | "running" | "closing" | "closed"
    scriptProcessorRef,     \* "none" | "connected" | "disconnected"
    mediaStreamRef,         \* "none" | "live" | "stopped"
    outputAudioContextRef,  \* output context, same values as audioContextRef
    nextStartTimeRef,       \* useRef(0)
    outputSourcesRef,       \* useRef(new Set<AudioBufferSourceNode>())
    currentUserInputRef,    \* useRef('')
    currentJudgeOutputRef,  \* useRef('')
    mounted,                \* the component is mounted
    opening,                \* position of playOpeningStatement
    channel,                \* the web socket behind ai.live.connect
    micRequest,             \* position of onopen: "idle" | "pending" | "granted" | "denied"
    clock,                  \* outputAudioContext.currentTime
    decoding,               \* onmessage invocations suspended at await decodeAudioData
    started,                \* the calls source.start(when), in call order
    thenQueue,              \* callbacks chained on the pending sessionPromise
    sentLog,                \* the calls session.sendRealtimeInput, in call order
    captured,               \* number of onaudioprocess callbacks so far
    nextFrame,              \* number of inbound audio frames so far
    releaseLog,             \* release calls made by the last cleanUp, in call order
    successor,              \* position of the session instance mounted after this one
    language,               \* CaseStudiesNews: the language prop
    newsCache,              \* localStorage[NEWS_CACHE_KEY_ENGLISH]; <<>> when absent
    latestNewsCache,        \* localStorage[LATEST_NEWS_KEY_ENGLISH]; <<>> when absent
    results,                \* useState<DisplayableArticle[] | null>(null)
    isLoading,              \* useState(true)
    newsError,              \* useState('') of CaseStudiesNews
    newArticlesAvailable,   \* useState(false)
    loadInitial,            \* position of loadInitialData
    search,                 \* the handleSearch invocation in flight
    fetch,                  \* the backgroundFetch invocation in flight
    load,                   \* the handleLoadNewArticles invocation in flight
    call,                   \* a service function called on its own: name, arguments, outcome
    ret,                    \* what that call did
    nowPlaying,             \* ChatUI: useState<{source, index} | null>(null); source 0 is null
    chatSources,            \* ChatUI: the buffer sources created, by number: message and state
    playCalls,              \* ChatUI: the playAudio invocations, by number: message and position
    chatContext,            \* ChatUI: audioContextRef, "none" | "running"
    sessions,               \* AIChatbot: useState<ChatSession[]>, each an id and its messages
    activeSessionId,        \* AIChatbot: useState<string | null>(null); 0 is null
    botIsLoading,           \* AIChatbot: useState(false), the isLoading prop of ChatUI
    botInput,               \* ChatUI: useState('') of the message box
    sends,                  \* the handleSendMessage invocations, by number: session and position
    botLanguage,            \* AIChatbot: the language prop
    botNow,                 \* Date.now() at the last handleNewChat
    smsMessages,            \* SMSHelp: useState<SMSMessage[]>
    smsInput,               \* SMSHelp: useState('')
    smsIsLoading,           \* SMSHelp: useState(false)
    smsCalls,               \* SMSHelp: the getChatbotResponse calls, in call order
    searchHistory,          \* ExpertLocator: useState<string[]>([])
    locatorPending,         \* ExpertLocator: the handleSearch invocations awaiting findLegalAid
    step,                   \* DocumentGenerator: useState(1)
    docTypeKey,             \* DocumentGenerator: useState('')
    details,                \* DocumentGenerator: useState({}), "" when empty
    docIsLoading,           \* DocumentGenerator: useState(false)
    generatedDoc,           \* DocumentGenerator: useState('')
    docError,               \* DocumentGenerator: useState('')
    savedDocuments,         \* the calls of onSaveDocument, in call order
    generate,               \* position of handleGenerate
    docLanguage             \* DocumentGenerator: the language prop

vars == << status, transcripts, currentUserInput, currentJudgeOutput, error,
           sessionPromiseRef, audioContextRef, scriptProcessorRef, mediaStreamRef,
           outputAudioContextRef, nextStartTimeRef, outputSourcesRef,
           currentUserInputRef, currentJudgeOutputRef, mounted, opening, channel,
           micRequest, clock, decoding, started, thenQueue, sentLog, captured,
           nextFrame, releaseLog, successor, language, newsCache, latestNewsCache,
           results, isLoading, newsError, newArticlesAvailable, loadInitial, search,
           fetch, load, call, ret, nowPlaying, chatSources, playCalls, chatContext,
           sessions, activeSessionId, botIsLoading, botInput, sends, botLanguage,
           botNow, smsMessages, smsInput, smsIsLoading, smsCalls, searchHistory,
           locatorPending, step, docTypeKey, details, docIsLoading, generatedDoc,
           docError, savedDocuments, generate, docLanguage >>

\* the state of the news screen and of a service call made on its own
NewsVars == << language, newsCache, latestNewsCache, results, isLoading, newsError,
              newArticlesAvailable, loadInitial, search, fetch, load >>

CallVars == << call, ret >>

\* the state of ChatUI's read-aloud buttons
ChatVars == << nowPlaying, chatSources, playCalls, chatContext >>

\* what no handler of the courtroom session touches
\* the state of the chatbot, the SMS demo, the expert locator and the
\* document generator
BotVars == << sessions, activeSessionId, botIsLoading, botInput, sends, botLanguage, botNow >>

SmsVars == << smsMessages, smsInput, smsIsLoading, smsCalls >>

LocatorVars == << searchHistory, locatorPending >>

DocVars == << step, docTypeKey, details, docIsLoading, generatedDoc, docError,
             savedDocuments, generate, docLanguage >>

FormVars == << BotVars, SmsVars, LocatorVars, DocVars >>

ScreenVars == << NewsVars, CallVars, ChatVars, FormVars >>

\* ------------------------------------------------------------- vocabulary
SessionStatus == {"initializing", "starting", "active", "speaking", "listening", "ended", "error"}

Max(a, b) == IF a >= b THEN a ELSE b

\* Text is a sequence of characters; " " stands for any white space.
Chars == {"a", " "}

IsSpace(c) == c = " "

RECURSIVE TrimStart(_)
TrimStart(s) == IF s = <<>> THEN <<>>
                ELSE IF IsSpace(Head(s)) THEN TrimStart(Tail(s)) ELSE s

RECURSIVE TrimEnd(_)
TrimEnd(s) == IF s = <<>> THEN <<>>
              ELSE IF IsSpace(s[Len(s)]) THEN TrimEnd(SubSeq(s, 1, Len(s) - 1)) ELSE s

\* String.prototype.trim
Trim(s) == TrimEnd(TrimStart(s))

\* the text of one transcription fragment; <<>> also stands for an absent part
Fragments == {<<>>} \cup {<< c >> : c \in Chars}

NoAudio == [kind |-> "none", dur |-> 0]

CorruptAudio == [kind |-> "corrupt", dur |-> 0]

ValidAudio(d) == [kind |-> "valid", dur |-> d]

AudioParts == {NoAudio, CorruptAudio} \cup {ValidAudio(d) : d \in 1..MaxDur}

\* LiveServerMessage: the parts of serverContent that onmessage reads
Messages == [inputTranscription : Fragments, outputTranscription : Fragments,
             turnComplete : BOOLEAN, audio : AudioParts]

\* ------------------------------------------------------------------- Init
\* LiveCourtroomSession after construction
SessionInit ==
    /\ status = "initializing"
    /\ transcripts = <<>>
    /\ currentUserInput = <<>>
    /\ currentJudgeOutput = <<>>
    /\ error = ""
    /\ sessionPromiseRef = "null"
    /\ audioContextRef = "none"
    /\ scriptProcessorRef = "none"
    /\ mediaStreamRef = "none"
    /\ outputAudioContextRef = "none"
    /\ nextStartTimeRef = 0
    /\ outputSourcesRef = {}
    /\ currentUserInputRef = <<>>
    /\ currentJudgeOutputRef = <<>>
    /\ mounted = TRUE
    /\ opening = "tts"
    /\ channel = "none"
    /\ micRequest = "idle"
    /\ clock = 0
    /\ decoding = {}
    /\ started = <<>>
    /\ thenQueue = <<>>
    /\ sentLog = <<>>
    /\ captured = 0
    /\ nextFrame = 0
    /\ releaseLog = <<>>
    /\ successor = "none"

\* results: null, or a list of articles
NullResults == [isNull |-> TRUE, items |-> <<>>]

\* no handleSearch, backgroundFetch or handleLoadNewArticles in flight
NoSearch == [phase |-> "idle", resultsWasNull |-> TRUE, response |-> <<>>]

NoFetch == [phase |-> "idle", existingHeadlines |-> {}]

NoLoad == [phase |-> "idle", newEnglishArticles |-> <<>>]

\* CaseStudiesNews not rendered: the state of its first render, empty storage
NewsIdle ==
    /\ language = "English"
    /\ newsCache = <<>>
    /\ latestNewsCache = <<>>
    /\ results = NullResults
    /\ isLoading = TRUE
    /\ newsError = ""
    /\ newArticlesAvailable = FALSE
    /\ loadInitial = [phase |-> "unmounted", cached |-> <<>>]
    /\ search = NoSearch
    /\ fetch = NoFetch
    /\ load = NoLoad

\* no service function called on its own
CallIdle ==
    /\ call = [fn |-> "none"]
    /\ ret = [kind |-> "none"]

\* ChatUI after construction
NotPlaying == [source |-> 0, index |-> 0]

ChatInit ==
    /\ nowPlaying = NotPlaying
    /\ chatSources = <<>>
    /\ playCalls = <<>>
    /\ chatContext = "none"

\* AIChatbot after construction, nothing stored
BotIdle ==
    /\ sessions = <<>>
    /\ activeSessionId = 0
    /\ botIsLoading = FALSE
    /\ botInput = <<>>
    /\ sends = <<>>
    /\ botLanguage = "English"
    /\ botNow = 0

\* the welcome message SMSHelp starts with
Welcome == [sender |-> "bot", text |-> "welcome"]

\* SMSHelp after construction
SmsInit ==
    /\ smsMessages = << Welcome >>
    /\ smsInput = <<>>
    /\ smsIsLoading = FALSE
    /\ smsCalls = <<>>

\* ExpertLocator after construction, nothing stored
LocatorIdle ==
    /\ searchHistory = <<>>
    /\ locatorPending = {}

\* DocumentGenerator after construction
DocStart ==
    /\ step = 1
    /\ docTypeKey = ""
    /\ details = ""
    /\ docIsLoading = FALSE
    /\ generatedDoc = <<>>
    /\ docError = ""
    /\ savedDocuments = <<>>
    /\ generate = "idle"

DocIdle == DocStart /\ docLanguage = "English"

FormsIdle == BotIdle /\ SmsInit /\ LocatorIdle /\ DocIdle

Init == SessionInit /\ NewsIdle /\ CallIdle /\ ChatInit /\ FormsIdle

\* ------------------------------------------------------ React state setters
\* A state setter of an unmounted component does nothing.
SetStatus(s) == status' = IF mounted THEN s ELSE status

SetError(e) == error' = IF mounted THEN e ELSE error

\* variables no step of the opening statement or of the connection touches
TextVars == << transcripts, currentUserInput, currentJudgeOutput,
               currentUserInputRef, currentJudgeOutputRef >>

PlaybackVars == << nextStartTimeRef, outputSourcesRef, decoding, started, nextFrame >>

CaptureVars == << audioContextRef, scriptProcessorRef, mediaStreamRef, micRequest,
                  sentLog, captured >>

EndVars == << mounted, releaseLog, successor >>

\* ------------------------------------------------------- startLiveSession
\* setStatus('starting'); sessionPromiseRef.current = ai.live.connect(...);
\* the function then waits for the promise (ConnectResolves, ConnectFails).
startLiveSession ==
    /\ SetStatus("starting")
    /\ sessionPromiseRef' = "pending"
    /\ channel' = "connecting"

\* --------------------------------------------------------- getTextToSpeech
\* what ai.models.generateContent does: it resolves with inline audio data,
\* resolves without any, or rejects
GenerateContentOutcomes == {"audio", "noAudio", "rejected"}

\* getTextToSpeech awaits generateContent without a try/catch and returns
\* base64Audio || null: "data", "null", or the rejection passed on ("throws").
getTextToSpeech(outcome) ==
    CASE outcome = "audio" -> "data"
      [] outcome = "noAudio" -> "null"
      [] outcome = "rejected" -> "throws"

\* ---------------------------------------------------- playOpeningStatement
\* getTextToSpeech resolves with audio: the output context is created when
\* missing, decode(audioData) succeeds and decodeAudioData is awaited.
TtsReturnsAudio ==
    /\ opening = "tts"
    /\ \E o \in GenerateContentOutcomes : getTextToSpeech(o) = "data"
    /\ opening' = "decoding"
    /\ outputAudioContextRef' =
          IF outputAudioContextRef = "none" THEN "running" ELSE outputAudioContextRef
    /\ UNCHANGED << status, error, sessionPromiseRef, channel, clock, thenQueue,
                    TextVars, PlaybackVars, CaptureVars, EndVars, ScreenVars >>

\* getTextToSpeech resolves with null (base64Audio || null): startLiveSession().
TtsReturnsNull ==
    /\ opening = "tts"
    /\ \E o \in GenerateContentOutcomes : getTextToSpeech(o) = "null"
    /\ opening' = "done"
    /\ startLiveSession
    /\ UNCHANGED << error, outputAudioContextRef, clock, thenQueue, TextVars, PlaybackVars, CaptureVars, EndVars, ScreenVars >>

\* the catch block of playOpeningStatement
OpeningFailed ==
    /\ opening' = "failed"
    /\ SetError("Failed to start the session. Please try again.")
    /\ SetStatus("error")
    /\ UNCHANGED << sessionPromiseRef, channel, clock, thenQueue, TextVars, PlaybackVars, CaptureVars, EndVars, ScreenVars >>

\* getTextToSpeech rejects: it has no try/catch around generateContent, so the
\* rejection reaches the catch block of playOpeningStatement.
TtsRejects ==
    /\ opening = "tts"
    /\ \E o \in GenerateContentOutcomes : getTextToSpeech(o) = "throws"
    /\ OpeningFailed
    /\ UNCHANGED outputAudioContextRef

\* the opening audio cannot be decoded: decode or decodeAudioData throws
OpeningDecodeFails ==
    /\ opening = "decoding"
    /\ OpeningFailed
    /\ UNCHANGED outputAudioContextRef

\* OpeningDecoded that calls startLiveSession as soon as the opening audio
\* starts to play
OpeningDecoded_ConnectsAtOnce ==
    /\ opening = "decoding"
    /\ opening' = "playing"
    /\ startLiveSession
    /\ UNCHANGED << error, outputAudioContextRef, clock, thenQueue, TextVars,
                    PlaybackVars, CaptureVars, EndVars, ScreenVars >>

\* decodeAudioData resolves: source.onended = startLiveSession; source.start()
OpeningDecoded ==
    /\ opening = "decoding"
    /\ opening' = "playing"
    /\ UNCHANGED << status, error, sessionPromiseRef, outputAudioContextRef, channel,
                    clock, thenQueue, TextVars, PlaybackVars, CaptureVars,
                    EndVars, ScreenVars >>

\* the opening source finishes playing: onended runs startLiveSession().
\* A source of a closed context renders nothing and never ends.
OpeningEnded ==
    /\ opening = "playing"
    /\ outputAudioContextRef \in {"running", "closing"}
    /\ opening' = "done"
    /\ startLiveSession
    /\ UNCHANGED << error, outputAudioContextRef, clock, thenQueue, TextVars, PlaybackVars, CaptureVars, EndVars, ScreenVars >>

\* -------------------------------------------------------------- connection
\* one callback chained on sessionPromiseRef.current with .then
CloseCallback == [kind |-> "close", id |-> 0]

SendCallback(n) == [kind |-> "send", id |-> n]

\* session.close() on the socket
SessionClose(ch) == IF ch = "open" THEN "closing" ELSE ch

\* the socket opens: the SDK calls onopen, which requests the microphone and
\* suspends at await getUserMedia
ChannelOpen ==
    /\ channel = "connecting"
    /\ channel' = "open"
    /\ micRequest' = "pending"
    /\ UNCHANGED << status, error, sessionPromiseRef, outputAudioContextRef, opening,
                    clock, thenQueue, TextVars, PlaybackVars, audioContextRef,
                    scriptProcessorRef, mediaStreamRef, sentLog, captured, EndVars, ScreenVars >>

\* SendsOf for a promise that runs the callbacks chained last first
RECURSIVE SendsOf_LastFirst(_)
SendsOf_LastFirst(q) ==
    IF q = <<>> THEN <<>>
    ELSE IF Head(q).kind = "send" THEN SendsOf_LastFirst(Tail(q)) \o <<Head(q).id>>
    ELSE SendsOf_LastFirst(Tail(q))

\* the frames of the send callbacks of a callback queue, in order
RECURSIVE SendsOf(_)
SendsOf(q) == IF q = <<>> THEN <<>>
              ELSE IF Head(q).kind = "send" THEN <<Head(q).id>> \o SendsOf(Tail(q))
              ELSE SendsOf(Tail(q))

\* one "session" entry per close callback of a callback queue
RECURSIVE ClosesOf(_)
ClosesOf(q) == IF q = <<>> THEN <<>>
               ELSE IF Head(q).kind = "close" THEN <<"session">> \o ClosesOf(Tail(q))
               ELSE ClosesOf(Tail(q))

\* the promise of ai.live.connect resolves: the callbacks chained on it run in
\* the order in which they were chained, and startLiveSession returns
ConnectResolves ==
    /\ sessionPromiseRef = "pending"
    /\ channel = "open"
    /\ sessionPromiseRef' = "resolved"
    /\ sentLog' = sentLog \o SendsOf(thenQueue)
    /\ releaseLog' = releaseLog \o ClosesOf(thenQueue)
    /\ channel' = IF ClosesOf(thenQueue) # <<>> THEN SessionClose(channel) ELSE channel
    /\ thenQueue' = <<>>
    /\ UNCHANGED << status, error, outputAudioContextRef, opening, clock, TextVars, PlaybackVars, audioContextRef, scriptProcessorRef,
                    mediaStreamRef, micRequest, captured, mounted, successor, ScreenVars >>

\* the promise of ai.live.connect rejects: the catch block of startLiveSession.
\* The callbacks chained on the promise never run.
ConnectFails ==
    /\ sessionPromiseRef = "pending"
    /\ channel = "connecting"
    /\ sessionPromiseRef' = "rejected"
    /\ channel' = "failed"
    /\ thenQueue' = <<>>
    /\ SetError("Failed to connect to live session.")
    /\ SetStatus("error")
    /\ UNCHANGED << outputAudioContextRef, opening, clock, TextVars,
                    PlaybackVars, CaptureVars, EndVars, ScreenVars >>

\* OnError that goes on to connect again
OnError_Reconnects ==
    /\ channel \in {"connecting", "open"}
    /\ channel' = "connecting"
    /\ sessionPromiseRef' = "pending"
    /\ SetError("A connection error occurred.")
    /\ SetStatus("error")
    /\ UNCHANGED << outputAudioContextRef, opening, clock, thenQueue,
                    TextVars, PlaybackVars, CaptureVars, EndVars, ScreenVars >>

\* onerror: console.error; setError; setStatus('error').  Nothing is released.
OnError ==
    /\ channel \in {"connecting", "open"}
    /\ channel' = "errored"
    /\ SetError("A connection error occurred.")
    /\ SetStatus("error")
    /\ UNCHANGED << sessionPromiseRef, outputAudioContextRef, opening, clock, thenQueue,
                    TextVars, PlaybackVars, CaptureVars, EndVars, ScreenVars >>

\* onclose: the body is empty ("Status is handled by the end session button")
OnClose ==
    /\ channel \in {"open", "errored", "closing"}
    /\ channel' = "closed"
    /\ UNCHANGED << status, error, sessionPromiseRef, outputAudioContextRef, opening,
                    clock, thenQueue, TextVars, PlaybackVars, CaptureVars, EndVars, ScreenVars >>

\* ------------------------------------------------------------------ onopen
\* getUserMedia resolves: the input context, the media stream source and the
\* script processor are created and connected; setStatus('listening')
MicGranted ==
    /\ micRequest = "pending"
    /\ micRequest' = "granted"
    /\ mediaStreamRef' = "live"
    /\ audioContextRef' = "running"
    /\ scriptProcessorRef' = "connected"
    /\ SetStatus("listening")
    /\ UNCHANGED << error, sessionPromiseRef, outputAudioContextRef, opening, channel,
                    clock, thenQueue, TextVars, PlaybackVars, sentLog,
                    captured, EndVars, ScreenVars >>

\* MicDenied with a catch block that goes on to connect the capture graph
MicDenied_StillCaptures ==
    /\ micRequest = "pending"
    /\ micRequest' = "denied"
    /\ audioContextRef' = "running"
    /\ scriptProcessorRef' = "connected"
    /\ SetError("Microphone access is required. Please grant permission and try again.")
    /\ SetStatus("error")
    /\ UNCHANGED << sessionPromiseRef, outputAudioContextRef, opening, channel, clock,
                    thenQueue, TextVars, PlaybackVars, mediaStreamRef, sentLog, captured,
                    EndVars, ScreenVars >>

\* getUserMedia rejects: the catch block of onopen
MicDenied ==
    /\ micRequest = "pending"
    /\ micRequest' = "denied"
    /\ SetError("Microphone access is required. Please grant permission and try again.")
    /\ SetStatus("error")
    /\ UNCHANGED << sessionPromiseRef, outputAudioContextRef, opening, channel, clock,
                    thenQueue, TextVars, PlaybackVars, audioContextRef,
                    scriptProcessorRef, mediaStreamRef, sentLog, captured, EndVars, ScreenVars >>

\* ---------------------------------------------------------- onaudioprocess
\* OnAudioProcess that also restarts the playback schedule at the clock
OnAudioProcess_ResetsSchedule ==
    /\ scriptProcessorRef = "connected"
    /\ audioContextRef = "running"
    /\ captured' = captured + 1
    /\ sentLog' = IF sessionPromiseRef = "resolved"
                  THEN Append(sentLog, captured + 1) ELSE sentLog
    /\ thenQueue' = IF sessionPromiseRef = "pending"
                    THEN Append(thenQueue, SendCallback(captured + 1)) ELSE thenQueue
    /\ nextStartTimeRef' = clock
    /\ UNCHANGED << status, error, sessionPromiseRef, outputAudioContextRef, opening,
                    channel, clock, TextVars, outputSourcesRef, decoding, started,
                    nextFrame, audioContextRef, scriptProcessorRef, mediaStreamRef,
                    micRequest, EndVars, ScreenVars >>

\* OnAudioProcess that sends only on a resolved promise and otherwise lets the
\* frame go
OnAudioProcess_DropsWhilePending ==
    /\ scriptProcessorRef = "connected"
    /\ audioContextRef = "running"
    /\ captured' = captured + 1
    /\ sentLog' = IF sessionPromiseRef = "resolved"
                  THEN Append(sentLog, captured + 1) ELSE sentLog
    /\ UNCHANGED << status, error, sessionPromiseRef, outputAudioContextRef, opening,
                    channel, clock, thenQueue, TextVars, PlaybackVars, audioContextRef,
                    scriptProcessorRef, mediaStreamRef, micRequest, EndVars, ScreenVars >>

\* the script processor calls back while it is connected in a running context:
\* sessionPromiseRef.current?.then(session => session.sendRealtimeInput(...)).
\* On a resolved promise the callback runs before any other event; on a pending
\* one it is queued; on a rejected one it never runs.
OnAudioProcess ==
    /\ scriptProcessorRef = "connected"
    /\ audioContextRef = "running"
    /\ captured' = captured + 1
    /\ sentLog' = IF sessionPromiseRef = "resolved"
                  THEN Append(sentLog, captured + 1) ELSE sentLog
    /\ thenQueue' = IF sessionPromiseRef = "pending"
                    THEN Append(thenQueue, SendCallback(captured + 1)) ELSE thenQueue
    /\ UNCHANGED << status, error, sessionPromiseRef, outputAudioContextRef, opening,
                    channel, clock, TextVars, PlaybackVars, audioContextRef,
                    scriptProcessorRef, mediaStreamRef, micRequest, EndVars, ScreenVars >>

\* --------------------------------------------------------------- onmessage
\* CommitTurn with the two push statements in the other order
CommitTurn_JudgeFirst(prev, userInput, judgeOutput) ==
    prev \o (IF Trim(judgeOutput) # <<>>
             THEN << [speaker |-> "Judge", text |-> Trim(judgeOutput)] >> ELSE <<>>)
         \o (IF Trim(userInput) # <<>>
             THEN << [speaker |-> "You", text |-> Trim(userInput)] >> ELSE <<>>)

\* CommitTurn without the two if (x.trim()) tests: both entries are pushed
CommitTurn_NoBlankTest(prev, userInput, judgeOutput) ==
    prev \o << [speaker |-> "You", text |-> Trim(userInput)],
               [speaker |-> "Judge", text |-> Trim(judgeOutput)] >>

\* the functional update passed to setTranscripts at turnComplete
CommitTurn(prev, userInput, judgeOutput) ==
    prev \o (IF Trim(userInput) # <<>>
             THEN << [speaker |-> "You", text |-> Trim(userInput)] >> ELSE <<>>)
         \o (IF Trim(judgeOutput) # <<>>
             THEN << [speaker |-> "Judge", text |-> Trim(judgeOutput)] >> ELSE <<>>)

\* nextStartTimeRef.current = Math.max(nextStartTimeRef.current, audioContext.currentTime)
ClampStartTime(nextStart, currentTime) == Max(nextStart, currentTime)

\* decode(base64Audio): the bytes of a well-formed payload; a malformed payload
\* makes it throw (DecodeError)
decode(audio) == IF audio.kind = "valid" THEN "bytes" ELSE "throws"

\* OnMessageText with = in place of += : a fragment replaces the accumulator
OnMessageText_ReplacesAccumulator(m) ==
    LET userInput == IF m.inputTranscription # <<>>
                     THEN m.inputTranscription ELSE currentUserInputRef
        judgeOutput == IF m.outputTranscription # <<>>
                       THEN m.outputTranscription ELSE currentJudgeOutputRef
    IN  IF m.turnComplete
        THEN /\ transcripts' = IF mounted
                               THEN CommitTurn(transcripts, userInput, judgeOutput)
                               ELSE transcripts
             /\ currentUserInputRef' = <<>>
             /\ currentJudgeOutputRef' = <<>>
             /\ currentUserInput' = IF mounted THEN <<>> ELSE currentUserInput
             /\ currentJudgeOutput' = IF mounted THEN <<>> ELSE currentJudgeOutput
        ELSE /\ transcripts' = transcripts
             /\ currentUserInputRef' = userInput
             /\ currentJudgeOutputRef' = judgeOutput
             /\ currentUserInput' = IF mounted THEN userInput ELSE currentUserInput
             /\ currentJudgeOutput' = IF mounted THEN judgeOutput ELSE currentJudgeOutput

\* the transcription and turnComplete parts of onmessage
OnMessageText(m) ==
    LET userInput == currentUserInputRef \o m.inputTranscription
        judgeOutput == currentJudgeOutputRef \o m.outputTranscription
    IN  IF m.turnComplete
        THEN /\ transcripts' = IF mounted
                               THEN CommitTurn(transcripts, userInput, judgeOutput)
                               ELSE transcripts
             /\ currentUserInputRef' = <<>>
             /\ currentJudgeOutputRef' = <<>>
             /\ currentUserInput' = IF mounted THEN <<>> ELSE currentUserInput
             /\ currentJudgeOutput' = IF mounted THEN <<>> ELSE currentJudgeOutput
        ELSE /\ transcripts' = transcripts
             /\ currentUserInputRef' = userInput
             /\ currentJudgeOutputRef' = judgeOutput
             /\ currentUserInput' = IF mounted THEN userInput ELSE currentUserInput
             /\ currentJudgeOutput' = IF mounted THEN judgeOutput ELSE currentJudgeOutput

\* the audio part of onmessage, up to await decodeAudioData.  Without an output
\* context (the opening statement had no audio) reading audioContext.currentTime
\* throws after setStatus('speaking'); a malformed payload makes decode throw
\* after the clamp of nextStartTimeRef.  In both cases the handler ends there.
OnMessageAudio(m) ==
    IF m.audio.kind = "none"
    THEN UNCHANGED << status, nextStartTimeRef, decoding, nextFrame >>
    ELSE /\ nextFrame' = nextFrame + 1
         /\ SetStatus("speaking")
         /\ IF outputAudioContextRef = "none"
            THEN UNCHANGED << nextStartTimeRef, decoding >>
            ELSE /\ nextStartTimeRef' = ClampStartTime(nextStartTimeRef, clock)
                 /\ decoding' = IF decode(m.audio) = "throws" THEN decoding
                                ELSE decoding \cup {[id |-> nextFrame + 1, dur |-> m.audio.dur]}

\* a message that carries nothing is not delivered
EmptyMessage(m) ==
    /\ m.inputTranscription = <<>>
    /\ m.outputTranscription = <<>>
    /\ ~m.turnComplete
    /\ m.audio.kind = "none"

OnMessage(m) ==
    /\ channel = "open"
    /\ ~EmptyMessage(m)
    /\ OnMessageText(m)
    /\ OnMessageAudio(m)
    /\ UNCHANGED << error, sessionPromiseRef, outputAudioContextRef, opening, channel,
                    clock, thenQueue, outputSourcesRef, started, CaptureVars,
                    EndVars, ScreenVars >>

\* the source that onmessage creates for a decoded buffer: started at `when`
\* while the clock reads `now`, it plays until `ends`
NewSource(f, when, now) ==
    [id |-> f.id, when |-> when, dur |-> f.dur, ends |-> Max(when, now) + f.dur,
     stopped |-> FALSE]

\* decodeAudioData resolves and onmessage resumes: the source is created,
\* source.start(nextStartTimeRef.current), nextStartTimeRef.current += duration,
\* outputSourcesRef.current.add(source).  Decodes resolve in any order.
DecodeDone(f) ==
    /\ f \in decoding
    /\ decoding' = decoding \ {f}
    /\ started' = Append(started, [id |-> f.id, when |-> nextStartTimeRef,
                                   dur |-> f.dur])
    /\ nextStartTimeRef' = nextStartTimeRef + f.dur
    /\ outputSourcesRef' = outputSourcesRef \cup {NewSource(f, nextStartTimeRef, clock)}
    /\ UNCHANGED << status, error, sessionPromiseRef, outputAudioContextRef, opening,
                    channel, clock, thenQueue, nextFrame, TextVars,
                    CaptureVars, EndVars, ScreenVars >>

\* the 'ended' listener of a source: it fires when the source has played to its
\* end in the running context, or after source.stop()
SourceEnded(s) ==
    /\ s \in outputSourcesRef
    /\ s.stopped \/ (outputAudioContextRef = "running" /\ clock >= s.ends)
    /\ outputSourcesRef' = outputSourcesRef \ {s}
    /\ IF outputSourcesRef' = {} THEN SetStatus("listening") ELSE UNCHANGED status
    /\ UNCHANGED << error, sessionPromiseRef, outputAudioContextRef, opening, channel,
                    clock, thenQueue, nextStartTimeRef, decoding, started,
                    nextFrame, TextVars, CaptureVars, EndVars, ScreenVars >>

\* the playback clock of the running output context advances
Tick ==
    /\ outputAudioContextRef = "running"
    /\ clock' = clock + 1
    /\ UNCHANGED << status, error, sessionPromiseRef, outputAudioContextRef, opening,
                    channel, thenQueue, TextVars, PlaybackVars,
                    CaptureVars, EndVars, ScreenVars >>

\* ----------------------------------------------------------------- cleanUp
\* if (ctx && ctx.state !== 'closed') ctx.close().catch(console.error): the
\* state attribute reads 'closed' only once the close has completed; a second
\* close() before that rejects and the rejection is caught
CloseContext(ctx) == IF ctx \in {"none", "closed"} THEN ctx ELSE "closing"

\* mediaStreamRef.current?.getTracks().forEach(track => track.stop())
StopTracks(stream) == IF stream = "none" THEN "none" ELSE "stopped"

\* scriptProcessorRef.current?.disconnect()
Disconnect(processor) == IF processor = "none" THEN "none" ELSE "disconnected"

\* outputSourcesRef.current.forEach(source => source.stop())
StopSources(sources) == {[s EXCEPT !.stopped = TRUE] : s \in sources}

\* CleanUpCalls with the playback sources stopped before the microphone
CleanUpCalls_SourcesFirst(stream, processor, inputCtx, sources, outputCtx) ==
       (IF sources # {} THEN << "outputSources" >> ELSE <<>>)
    \o (IF stream # "none" THEN << "mediaStream" >> ELSE <<>>)
    \o (IF processor # "none" THEN << "scriptProcessor" >> ELSE <<>>)
    \o (IF inputCtx \notin {"none", "closed"} THEN << "audioContext" >> ELSE <<>>)
    \o (IF outputCtx \notin {"none", "closed"} THEN << "outputAudioContext" >> ELSE <<>>)

\* the release calls one run of cleanUp makes synchronously, in call order
CleanUpCalls(stream, processor, inputCtx, sources, outputCtx) ==
       (IF stream # "none" THEN << "mediaStream" >> ELSE <<>>)
    \o (IF processor # "none" THEN << "scriptProcessor" >> ELSE <<>>)
    \o (IF inputCtx \notin {"none", "closed"} THEN << "audioContext" >> ELSE <<>>)
    \o (IF sources # {} THEN << "outputSources" >> ELSE <<>>)
    \o (IF outputCtx \notin {"none", "closed"} THEN << "outputAudioContext" >> ELSE <<>>)

\* the resource handles the component holds
Resources ==
    [sessionPromiseRef |-> sessionPromiseRef, thenQueue |-> thenQueue,
     channel |-> channel, mediaStreamRef |-> mediaStreamRef,
     scriptProcessorRef |-> scriptProcessorRef, audioContextRef |-> audioContextRef,
     outputSourcesRef |-> outputSourcesRef,
     outputAudioContextRef |-> outputAudioContextRef]

\* the handles after one run of cleanUp.  The first statement is
\* sessionPromiseRef.current?.then(session => session.close()): the callback
\* runs right after the handler when the promise has resolved, when the promise
\* resolves if it is pending, and never if it was rejected.
CleanUpResult(r) ==
    [r EXCEPT
       !.thenQueue = IF r.sessionPromiseRef = "pending"
                     THEN Append(r.thenQueue, CloseCallback) ELSE r.thenQueue,
       !.channel = IF r.sessionPromiseRef = "resolved"
                   THEN SessionClose(r.channel) ELSE r.channel,
       !.mediaStreamRef = StopTracks(r.mediaStreamRef),
       !.scriptProcessorRef = Disconnect(r.scriptProcessorRef),
       !.audioContextRef = CloseContext(r.audioContextRef),
       !.outputSourcesRef = StopSources(r.outputSourcesRef),
       !.outputAudioContextRef = CloseContext(r.outputAudioContextRef)]

cleanUp ==
    /\ LET r == CleanUpResult(Resources)
       IN  /\ thenQueue' = r.thenQueue
           /\ channel' = r.channel
           /\ mediaStreamRef' = r.mediaStreamRef
           /\ scriptProcessorRef' = r.scriptProcessorRef
           /\ audioContextRef' = r.audioContextRef
           /\ outputSourcesRef' = r.outputSourcesRef
           /\ outputAudioContextRef' = r.outputAudioContextRef
    /\ releaseLog' = CleanUpCalls(mediaStreamRef, scriptProcessorRef, audioContextRef,
                                  outputSourcesRef, outputAudioContextRef)
                     \o (IF sessionPromiseRef = "resolved" THEN << "session" >> ELSE <<>>)

\* handleEndSession: cleanUp(); setStatus('ended'); setTimeout(onEndSession, 1000).
\* The timer's only effect is that the parent leaves the simulation step a
\* second later, which unmounts the component: Unmount.
HandleEndSession ==
    /\ mounted
    /\ cleanUp
    /\ status' = "ended"
    /\ UNCHANGED << error, sessionPromiseRef, opening, clock, mounted,
                    nextStartTimeRef, decoding, started, nextFrame, micRequest, sentLog,
                    captured, TextVars, successor, ScreenVars >>

\* the parent unmounts the component (onEndSession after the timer, or the user
\* navigates away): the cleanup of the effect runs cleanUp
Unmount ==
    /\ mounted
    /\ mounted' = FALSE
    /\ cleanUp
    /\ UNCHANGED << status, error, sessionPromiseRef, opening, clock,
                    nextStartTimeRef, decoding, started, nextFrame, micRequest, sentLog,
                    captured, TextVars, successor, ScreenVars >>

\* a closing context completes its close: its state attribute reads 'closed'
InputContextClosed ==
    /\ audioContextRef = "closing"
    /\ audioContextRef' = "closed"
    /\ UNCHANGED << status, error, sessionPromiseRef, outputAudioContextRef, opening,
                    channel, clock, thenQueue, TextVars, PlaybackVars,
                    scriptProcessorRef, mediaStreamRef, micRequest, sentLog, captured,
                    EndVars, ScreenVars >>

OutputContextClosed ==
    /\ outputAudioContextRef = "closing"
    /\ outputAudioContextRef' = "closed"
    /\ UNCHANGED << status, error, sessionPromiseRef, opening, channel, clock, thenQueue,
                    TextVars, PlaybackVars, CaptureVars, EndVars, ScreenVars >>

\* --------------------------------------------------------- the next session
\* Once this instance is unmounted VirtualCourtroom shows the selection step
\* again; Start Practice and Begin Simulation mount a new LiveCourtroomSession,
\* which runs the same code on refs of its own.  Only its way to the
\* microphone is followed: "none" | "initializing" | "starting" | "micPending"
\* | "micLive".
ThisSessionVars ==
    << status, error, sessionPromiseRef, outputAudioContextRef, opening, channel,
       clock, thenQueue, TextVars, PlaybackVars, CaptureVars, mounted, releaseLog >>

\* setCurrentStep('simulation') renders a new session; its effect runs
\* playOpeningStatement
BeginSimulation ==
    /\ ~mounted
    /\ successor = "none"
    /\ successor' = "initializing"
    /\ UNCHANGED << ThisSessionVars, ScreenVars >>

\* the new session's opening statement is over: startLiveSession
SuccessorStarts ==
    /\ successor = "initializing"
    /\ successor' = "starting"
    /\ UNCHANGED << ThisSessionVars, ScreenVars >>

\* the new session's channel opens: its onopen requests the microphone
SuccessorOpen ==
    /\ successor = "starting"
    /\ successor' = "micPending"
    /\ UNCHANGED << ThisSessionVars, ScreenVars >>

\* the new session's getUserMedia resolves with a live stream
SuccessorMicGranted ==
    /\ successor = "micPending"
    /\ successor' = "micLive"
    /\ UNCHANGED << ThisSessionVars, ScreenVars >>

\* ---------------------------------------------------------- specification
\* messages that carry audio only
AudioMessages ==
    {m \in Messages : /\ m.inputTranscription = <<>>
                      /\ m.outputTranscription = <<>>
                      /\ ~m.turnComplete}

\* messages that carry transcription fragments and turnComplete only
TextMessages == {m \in Messages : m.audio = NoAudio}

\* the accumulators and the log stay within the explored sizes
TextFits(m) ==
    /\ Len(currentUserInputRef) + Len(m.inputTranscription) <= MaxAccLen
    /\ Len(currentJudgeOutputRef) + Len(m.outputTranscription) <= MaxAccLen
    /\ m.turnComplete => Len(transcripts) < MaxTranscripts

\* the number of audio frames stays within the explored number
FrameFits(m) == (m.audio = NoAudio) \/ (nextFrame < MaxFrames)

\* Every event of a session.  Inbound messages carry audio only.
Next ==
    \/ TtsReturnsAudio
    \/ TtsReturnsNull
    \/ TtsRejects
    \/ OpeningDecodeFails
    \/ OpeningDecoded
    \/ OpeningEnded
    \/ ChannelOpen
    \/ ConnectResolves
    \/ ConnectFails
    \/ OnError
    \/ OnClose
    \/ MicGranted
    \/ MicDenied
    \/ (captured < MaxCapture /\ Len(thenQueue) < MaxThen /\ OnAudioProcess)
    \/ (nextFrame < MaxFrames /\ \E m \in AudioMessages : OnMessage(m))
    \/ \E f \in decoding : DecodeDone(f)
    \/ \E s \in outputSourcesRef : SourceEnded(s)
    \/ (clock < MaxClock /\ Tick)
    \/ (Len(thenQueue) < MaxThen /\ HandleEndSession)
    \/ (Len(thenQueue) < MaxThen /\ Unmount)
    \/ InputContextClosed
    \/ OutputContextClosed

Spec == Init /\ [][Next]_vars

\* The playback scheduler: a session that is started, receives audio frames
\* and plays them; nobody ends it.
PlaybackNext ==
    \/ TtsReturnsAudio
    \/ TtsReturnsNull
    \/ OpeningDecoded
    \/ OpeningEnded
    \/ ChannelOpen
    \/ ConnectResolves
    \/ MicGranted
    \/ (nextFrame < PlayFrames /\ \E m \in AudioMessages : OnMessage(m))
    \/ \E f \in decoding : DecodeDone(f)
    \/ \E s \in outputSourcesRef : SourceEnded(s)
    \/ (clock < PlayClock /\ Tick)

PlaybackSpec == Init /\ [][PlaybackNext]_vars

\* The turn aggregator: a mounted session that is started and receives
\* transcription fragments and turnComplete signals until the user ends it.
TurnNext ==
    \/ TtsReturnsNull
    \/ ChannelOpen
    \/ ConnectResolves
    \/ \E m \in TextMessages : TextFits(m) /\ OnMessage(m)
    \/ (Len(thenQueue) < MaxThen /\ HandleEndSession)
    \/ OnClose

TurnSpec == Init /\ [][TurnNext]_vars

\* The transcript log next to playback and capture: inbound messages carry
\* any mix of transcription fragments, turnComplete and audio, until the user
\* ends the session.
LogNext ==
    \/ TtsReturnsAudio
    \/ OpeningDecoded
    \/ OpeningEnded
    \/ ChannelOpen
    \/ ConnectResolves
    \/ MicGranted
    \/ (captured < MaxCapture /\ Len(thenQueue) < MaxThen /\ OnAudioProcess)
    \/ \E m \in Messages : FrameFits(m) /\ TextFits(m) /\ OnMessage(m)
    \/ \E f \in decoding : DecodeDone(f)
    \/ \E s \in outputSourcesRef : SourceEnded(s)
    \/ (clock < MaxClock /\ Tick)
    \/ (Len(thenQueue) < MaxThen /\ HandleEndSession)

LogSpec == Init /\ [][LogNext]_vars

\* The handover: a session without opening audio that is ended at any point,
\* and the session the user starts after it.
HandoverNext ==
    \/ TtsReturnsNull
    \/ ChannelOpen
    \/ ConnectResolves
    \/ MicGranted
    \/ MicDenied
    \/ (captured < MaxCapture /\ Len(thenQueue) < MaxThen /\ OnAudioProcess)
    \/ (Len(thenQueue) < MaxThen /\ HandleEndSession)
    \/ (Len(thenQueue) < MaxThen /\ Unmount)
    \/ OnClose
    \/ InputContextClosed
    \/ BeginSimulation
    \/ SuccessorStarts
    \/ SuccessorOpen
    \/ SuccessorMicGranted

HandoverSpec == Init /\ [][HandoverNext]_vars

\* The capture path: the microphone delivers buffers before and after the
\* connect promise resolves, until an error or the end of the session.
CaptureNext ==
    \/ TtsReturnsNull
    \/ ChannelOpen
    \/ ConnectResolves
    \/ MicGranted
    \/ (captured < OrderCapture /\ Len(thenQueue) < OrderCapture /\ OnAudioProcess)
    \/ OnError
    \/ OnClose
    \/ (Len(thenQueue) < OrderCapture /\ HandleEndSession)
    \/ InputContextClosed

CaptureSpec == Init /\ [][CaptureNext]_vars

\* The end of a session that plays audio.  Every callback the browser has
\* pending is eventually run: a resolved decode resumes onmessage, a source
\* that was stopped or has played out fires 'ended', a closing context closes.
\* The user and the server are not obliged to do anything.
TeardownNext ==
    \/ TtsReturnsAudio
    \/ OpeningDecoded
    \/ OpeningEnded
    \/ ChannelOpen
    \/ ConnectResolves
    \/ (nextFrame < PlayFrames /\ \E m \in AudioMessages : OnMessage(m))
    \/ \E f \in decoding : DecodeDone(f)
    \/ \E s \in outputSourcesRef : SourceEnded(s)
    \/ (clock < MaxClock /\ Tick)
    \/ (Len(thenQueue) < MaxThen /\ HandleEndSession)
    \/ (Len(thenQueue) < MaxThen /\ Unmount)
    \/ OnClose
    \/ OutputContextClosed

TeardownSpec ==
    /\ Init
    /\ [][TeardownNext]_vars
    /\ WF_vars(\E f \in decoding : DecodeDone(f))
    /\ WF_vars(\E s \in outputSourcesRef : SourceEnded(s))
    /\ WF_vars(OutputContextClosed)
    /\ WF_vars(OnClose)

\* ============================================================ news service
\* LegalNewsArticle: the headline and, standing for all its other fields, a body
Headlines == {"h1", "h2"}

Bodies == {"a", "b"}

Articles == [headline : Headlines, body : Bodies]

\* the lists of at most n articles
ArticleLists(n) == UNION {[1..k -> Articles] : k \in 0..n}

HeadlinesOf(list) == {list[i].headline : i \in DOMAIN list}

\* What ai.models.generateContent does for a news prompt: it rejects, or it
\* resolves with a text that JSON.parse rejects, that parses to something other
\* than an array, or that parses to an array of articles.
NewsOutcomes ==
    {[kind |-> k, articles |-> <<>>] : k \in {"rejects", "unparseable", "notArray"}}
    \cup {[kind |-> "array", articles |-> r] : r \in ArticleLists(MaxResponse)}

Throws(message) == [kind |-> "throws", message |-> message, value |-> <<>>]

Returns(value) == [kind |-> "returns", message |-> "", value |-> value]

\* getLegalNews: generateContent is awaited outside the try block, so its
\* rejection is passed on; a parse failure is rethrown with a fixed message.
\* (The grounding sources copied into each article are not modelled.)
getLegalNews(o) ==
    CASE o.kind = "rejects" -> Throws("service error")
      [] o.kind = "unparseable" -> Throws("Could not retrieve or parse news data.")
      [] o.kind = "notArray" -> Returns(<<>>)
      [] o.kind = "array" -> Returns(o.articles)

\* getRelatedNews: the same, but the catch block returns []
getRelatedNews(o) ==
    CASE o.kind = "rejects" -> Throws("service error")
      [] o.kind = "unparseable" -> Returns(<<>>)
      [] o.kind = "notArray" -> Returns(<<>>)
      [] o.kind = "array" -> Returns(o.articles)

\* ------------------------------------------------------------ translateText
\* A language name is a sequence of letters; these are the letters in use.
Uppers == << "E", "N", "G", "L", "I", "S", "H", "D" >>

Lowers == << "e", "n", "g", "l", "i", "s", "h", "d" >>

\* String.prototype.toLowerCase
ToLowerCase(str) ==
    [i \in DOMAIN str |->
        IF \E k \in DOMAIN Uppers : Uppers[k] = str[i]
        THEN Lowers[CHOOSE k \in DOMAIN Uppers : Uppers[k] = str[i]]
        ELSE str[i]]

english == << "e", "n", "g", "l", "i", "s", "h" >>

\* what translateText returns, and whether it called the service
Translated(value, called) ==
    [kind |-> "returns", message |-> "", value |-> value, serviceCalled |-> called]

\* What ai.models.generateContent does for a translation prompt: it rejects,
\* resolves with a response without text, or resolves with a text.
TranslateOutcomes ==
    {[kind |-> k, text |-> <<>>] : k \in {"rejects", "noText"}}
    \cup {[kind |-> "text", text |-> t] : t \in {<<>>, << "b" >>, << " ", "b", " " >>}}

\* the same with a case-sensitive test of the target language
translateText_CaseSensitive(text, targetLanguage, o) ==
    IF targetLanguage = english \/ text = <<>>
    THEN Translated(text, FALSE)
    ELSE CASE o.kind = "rejects" -> Translated(text, TRUE)
           [] o.kind = "noText" -> Translated(text, TRUE)
           [] o.kind = "text" -> Translated(Trim(o.text), TRUE)

\* translateText: English or an empty text is returned at once; otherwise the
\* trimmed answer of the service, and the text itself when the call rejects or
\* response.text.trim() throws (both inside the try block).
translateText(text, targetLanguage, o) ==
    IF ToLowerCase(targetLanguage) = english \/ text = <<>>
    THEN Translated(text, FALSE)
    ELSE CASE o.kind = "rejects" -> Translated(text, TRUE)
           [] o.kind = "noText" -> Translated(text, TRUE)
           [] o.kind = "text" -> Translated(Trim(o.text), TRUE)

\* ============================================================ the news screen
\* The detail view (selectedArticle, relatedArticles) is not part of the model.
Languages == {"English", "Hindi"}

\* the headlines of a list in the order in which a Map first sees them
RECURSIVE MapKeys(_, _)
MapKeys(list, seen) ==
    IF list = <<>> THEN <<>>
    ELSE IF Head(list).headline \in seen THEN MapKeys(Tail(list), seen)
    ELSE << Head(list).headline >> \o MapKeys(Tail(list), seen \cup {Head(list).headline})

\* the value a Map holds for a key set several times: the one set last
LastWith(list, h) ==
    list[CHOOSE i \in DOMAIN list :
            /\ list[i].headline = h
            /\ \A j \in DOMAIN list : list[j].headline = h => j <= i]

\* UniqueByHeadline that keeps every item
UniqueByHeadline_KeepsAll(list) == list

\* Array.from(new Map(list.map(item => [item.headline, item])).values())
UniqueByHeadline(list) ==
    LET keys == MapKeys(list, {})
    IN  IF keys = <<>> THEN <<>> ELSE [k \in DOMAIN keys |-> LastWith(list, keys[k])]

\* newEnglishArticles.filter(a => !existingHeadlines.has(a.headline))
RECURSIVE NotIn(_, _)
NotIn(list, existingHeadlines) ==
    IF list = <<>> THEN <<>>
    ELSE (IF Head(list).headline \in existingHeadlines THEN <<>> ELSE << Head(list) >>)
         \o NotIn(Tail(list), existingHeadlines)

Shown(items) == [isNull |-> FALSE, items |-> items]

\* createDisplayableArticles awaits translateText for every field unless the
\* language is English; in English its promise resolves without waiting for
\* anything, so the caller resumes before any other event is handled.
Urgent ==
    /\ language = "English"
    /\ \/ loadInitial.phase = "translating"
       \/ search.phase = "translating"
       \/ load.phase = "translating"

\* handleSearch up to await getLegalNews, called from a render in which results
\* was null or not: setIsLoading(true); setError('')
StartSearch(resultsWasNull) ==
    /\ isLoading' = TRUE
    /\ newsError' = ""
    /\ search' = [phase |-> "fetching", resultsWasNull |-> resultsWasNull, response |-> <<>>]

\* the end of loadInitialData: if (localStorage.getItem(LATEST_NEWS_KEY_ENGLISH))
CheckLatest ==
    newArticlesAvailable' = IF latestNewsCache # <<>> THEN TRUE ELSE newArticlesAvailable

\* the mount effect runs loadInitialData.  With articles in the main cache it
\* awaits createDisplayableArticles; without, it starts the search at once.
\* handleSearch here is the one of the first render, where results is null.
LoadInitialData ==
    /\ loadInitial.phase = "start"
    /\ IF newsCache # <<>>
       THEN /\ loadInitial' = [phase |-> "translating", cached |-> newsCache]
            /\ UNCHANGED << isLoading, newsError, search, newArticlesAvailable >>
       ELSE /\ loadInitial' = [phase |-> "done", cached |-> <<>>]
            /\ StartSearch(TRUE)
            /\ CheckLatest
    /\ UNCHANGED << language, newsCache, latestNewsCache, results, fetch, load >>
    /\ UNCHANGED << CallVars, ChatVars, FormVars, ThisSessionVars, successor >>

\* loadInitialData resumes: setResults(displayableCache); setIsLoading(false);
\* handleSearch(query), still the handleSearch of the first render
ShowCachedNews ==
    /\ loadInitial.phase = "translating"
    /\ loadInitial' = [phase |-> "done", cached |-> <<>>]
    /\ results' = Shown(loadInitial.cached)
    /\ StartSearch(TRUE)
    /\ CheckLatest
    /\ UNCHANGED << language, newsCache, latestNewsCache, fetch, load >>
    /\ UNCHANGED << CallVars, ChatVars, FormVars, ThisSessionVars, successor >>

\* submitSearch: the button is disabled while isLoading; handleSearch returns
\* at once for a blank query
SubmitSearch(query) ==
    /\ loadInitial.phase = "done"
    /\ ~isLoading
    /\ ~Urgent
    /\ IF Trim(query) = <<>>
       THEN UNCHANGED << isLoading, newsError, search >>
       ELSE StartSearch(results.isNull)
    /\ UNCHANGED << language, newsCache, latestNewsCache, results, newArticlesAvailable,
                    loadInitial, fetch, load >>
    /\ UNCHANGED << CallVars, ChatVars, FormVars, ThisSessionVars, successor >>

\* getLegalNews settles in handleSearch.  Resolved: the main cache is replaced
\* by the answer and createDisplayableArticles is awaited.  Rejected: the catch
\* block sets the error and, if results was null in the render the handler was
\* created in, setResults([]); finally setIsLoading(false).
SearchResponse(o) ==
    /\ search.phase = "fetching"
    /\ ~Urgent
    /\ LET r == getLegalNews(o)
       IN  IF r.kind = "returns"
           THEN /\ newsCache' = r.value
                /\ search' = [search EXCEPT !.phase = "translating", !.response = r.value]
                /\ UNCHANGED << results, isLoading, newsError >>
           ELSE /\ newsError' = "Sorry, something went wrong while fetching news. Please try again."
                /\ results' = IF search.resultsWasNull THEN Shown(<<>>) ELSE results
                /\ isLoading' = FALSE
                /\ search' = NoSearch
                /\ UNCHANGED newsCache
    /\ UNCHANGED << language, latestNewsCache, newArticlesAvailable, loadInitial, fetch, load >>
    /\ UNCHANGED << CallVars, ChatVars, FormVars, ThisSessionVars, successor >>

\* handleSearch resumes after createDisplayableArticles: setResults; finally
SearchDisplayed ==
    /\ search.phase = "translating"
    /\ results' = Shown(search.response)
    /\ isLoading' = FALSE
    /\ search' = NoSearch
    /\ UNCHANGED << language, newsCache, latestNewsCache, newsError, newArticlesAvailable,
                    loadInitial, fetch, load >>
    /\ UNCHANGED << CallVars, ChatVars, FormVars, ThisSessionVars, successor >>

\* the interval timer calls backgroundFetch: it reads the main cache and
\* awaits getLegalNews
BackgroundFetchStart ==
    /\ loadInitial.phase # "unmounted"
    /\ fetch.phase = "idle"
    /\ ~Urgent
    /\ fetch' = [phase |-> "fetching", existingHeadlines |-> HeadlinesOf(newsCache)]
    /\ UNCHANGED << language, newsCache, latestNewsCache, results, isLoading, newsError,
                    newArticlesAvailable, loadInitial, search, load >>
    /\ UNCHANGED << CallVars, ChatVars, FormVars, ThisSessionVars, successor >>

\* getLegalNews settles in backgroundFetch
BackgroundFetchDone(o) ==
    /\ fetch.phase = "fetching"
    /\ ~Urgent
    /\ fetch' = NoFetch
    /\ LET r == getLegalNews(o)
           uniqueNewArticles == NotIn(r.value, fetch.existingHeadlines)
       IN  IF r.kind = "returns" /\ uniqueNewArticles # <<>>
           THEN /\ latestNewsCache' = UniqueByHeadline(uniqueNewArticles \o latestNewsCache)
                /\ newArticlesAvailable' = TRUE
           ELSE UNCHANGED << latestNewsCache, newArticlesAvailable >>
    /\ UNCHANGED << language, newsCache, results, isLoading, newsError, loadInitial,
                    search, load >>
    /\ UNCHANGED << CallVars, ChatVars, FormVars, ThisSessionVars, successor >>

\* Load New Articles is clicked: the pending cache is read and
\* createDisplayableArticles awaited
HandleLoadNewArticles ==
    /\ newArticlesAvailable
    /\ load.phase = "idle"
    /\ ~Urgent
    /\ load' = IF latestNewsCache = <<>> THEN load
               ELSE [phase |-> "translating", newEnglishArticles |-> latestNewsCache]
    /\ UNCHANGED << language, newsCache, latestNewsCache, results, isLoading, newsError,
                    newArticlesAvailable, loadInitial, search, fetch >>
    /\ UNCHANGED << CallVars, ChatVars, FormVars, ThisSessionVars, successor >>

\* handleLoadNewArticles resumes: the articles it read are prepended to the
\* list, merged into the main cache as it is now, and the pending cache is removed
LoadNewArticlesDone ==
    /\ load.phase = "translating"
    /\ load' = NoLoad
    /\ results' = Shown(load.newEnglishArticles \o results.items)
    /\ newsCache' = UniqueByHeadline(load.newEnglishArticles \o newsCache)
    /\ latestNewsCache' = <<>>
    /\ newArticlesAvailable' = FALSE
    /\ UNCHANGED << language, isLoading, newsError, loadInitial, search, fetch >>
    /\ UNCHANGED << CallVars, ChatVars, FormVars, ThisSessionVars, successor >>

\* the queries typed into the search box
Queries == {<< " " >>, << "a" >>}

\* CaseStudiesNews is rendered in some language over the storage that earlier
\* visits left behind
NewsInit ==
    /\ SessionInit
    /\ CallIdle
    /\ ChatInit
    /\ FormsIdle
    /\ language \in Languages
    /\ newsCache \in {<<>>, << [headline |-> "h1", body |-> "a"] >>}
    /\ latestNewsCache \in {<<>>, << [headline |-> "h2", body |-> "a"] >>}
    /\ results = NullResults
    /\ isLoading = TRUE
    /\ newsError = ""
    /\ newArticlesAvailable = FALSE
    /\ loadInitial = [phase |-> "start", cached |-> <<>>]
    /\ search = NoSearch
    /\ fetch = NoFetch
    /\ load = NoLoad

NewsNext ==
    \/ LoadInitialData
    \/ ShowCachedNews
    \/ \E q \in Queries : SubmitSearch(q)
    \/ \E o \in NewsOutcomes : SearchResponse(o)
    \/ SearchDisplayed
    \/ BackgroundFetchStart
    \/ \E o \in NewsOutcomes : BackgroundFetchDone(o)
    \/ HandleLoadNewArticles
    \/ (Len(results.items) + Len(load.newEnglishArticles) <= MaxResults /\ LoadNewArticlesDone)

NewsSpec == NewsInit /\ [][NewsNext]_vars

\* ================================================= service calls on their own
\* the texts and target languages translateText is called with
Texts == {<<>>, << "a" >>, << " " >>, << " ", "a" >>}

TargetLanguages ==
    { << "E", "n", "g", "l", "i", "s", "h" >>,
      << "e", "n", "g", "l", "i", "s", "h" >>,
      << "E", "N", "G", "L", "I", "S", "H" >>,
      << "e", "N", "g", "L", "i", "S", "h" >>,
      << "H", "i", "n", "d", "i" >>,
      << "h", "i", "n", "d", "i" >>,
      << "e", "n", "g" >>,
      <<>> }

Calls ==
    [fn : {"translateText"}, text : Texts, targetLanguage : TargetLanguages,
     outcome : TranslateOutcomes]
    \cup [fn : {"getLegalNews", "getRelatedNews"}, outcome : NewsOutcomes]

\* a service function is about to be called
ServiceInit ==
    /\ SessionInit
    /\ NewsIdle
    /\ ChatInit
    /\ FormsIdle
    /\ call \in Calls
    /\ ret = [kind |-> "none"]

CallTranslateText ==
    /\ call.fn = "translateText"
    /\ ret.kind = "none"
    /\ ret' = translateText(call.text, call.targetLanguage, call.outcome)
    /\ UNCHANGED << call, NewsVars, ChatVars, FormVars, ThisSessionVars, successor >>

CallGetLegalNews ==
    /\ call.fn = "getLegalNews"
    /\ ret.kind = "none"
    /\ ret' = getLegalNews(call.outcome)
    /\ UNCHANGED << call, NewsVars, ChatVars, FormVars, ThisSessionVars, successor >>

CallGetRelatedNews ==
    /\ call.fn = "getRelatedNews"
    /\ ret.kind = "none"
    /\ ret' = getRelatedNews(call.outcome)
    /\ UNCHANGED << call, NewsVars, ChatVars, FormVars, ThisSessionVars, successor >>

ServiceNext ==
    \/ CallTranslateText
    \/ CallGetLegalNews
    \/ CallGetRelatedNews

ServiceSpec == ServiceInit /\ [][ServiceNext]_vars

\* ===================================================== ChatUI: reading aloud
MaxClicks == 3         \* playAudio invocations

\* the messages with a read-aloud button
MessageIndexes == {1, 2}

\* AudioBufferSourceNode.stop(): a source that plays falls silent; its ended
\* event is still to come
StopSource(sources, id) ==
    IF id \in DOMAIN sources /\ sources[id].state = "playing"
    THEN [sources EXCEPT ![id].state = "stopped"]
    ELSE sources

OtherThanChat == << NewsVars, CallVars, FormVars, ThisSessionVars, successor >>

\* a read-aloud button is clicked: playAudio up to await getTextToSpeech
PlayAudio(index) ==
    /\ chatSources' = IF nowPlaying # NotPlaying
                      THEN StopSource(chatSources, nowPlaying.source)
                      ELSE chatSources
    /\ IF nowPlaying # NotPlaying /\ nowPlaying.index = index
       THEN UNCHANGED << playCalls, chatContext >>
       ELSE /\ chatContext' = "running"
            /\ playCalls' = Append(playCalls, [index |-> index, phase |-> "tts"])
    /\ UNCHANGED nowPlaying
    /\ UNCHANGED OtherThanChat

\* getTextToSpeech settles for invocation c
ChatTtsSettles(c, outcome) ==
    /\ c \in DOMAIN playCalls
    /\ playCalls[c].phase = "tts"
    /\ LET r == getTextToSpeech(outcome)
       IN  /\ playCalls' = [playCalls EXCEPT
                               ![c].phase = IF r = "data" THEN "decoding" ELSE "done"]
           /\ nowPlaying' = IF r = "throws" THEN NotPlaying ELSE nowPlaying
    /\ UNCHANGED << chatSources, chatContext >>
    /\ UNCHANGED OtherThanChat

\* decode and decodeAudioData succeed for invocation c: a new source is
\* started and becomes nowPlaying
ChatDecoded(c) ==
    /\ c \in DOMAIN playCalls
    /\ playCalls[c].phase = "decoding"
    /\ playCalls' = [playCalls EXCEPT ![c].phase = "done"]
    /\ chatSources' = Append(chatSources,
                             [index |-> playCalls[c].index, state |-> "playing"])
    /\ nowPlaying' = [source |-> Len(chatSources) + 1, index |-> playCalls[c].index]
    /\ UNCHANGED chatContext
    /\ UNCHANGED OtherThanChat

\* decode throws or decodeAudioData rejects for invocation c
ChatDecodeFails(c) ==
    /\ c \in DOMAIN playCalls
    /\ playCalls[c].phase = "decoding"
    /\ playCalls' = [playCalls EXCEPT ![c].phase = "done"]
    /\ nowPlaying' = NotPlaying
    /\ UNCHANGED << chatSources, chatContext >>
    /\ UNCHANGED OtherThanChat

\* source.onended: the source has played to its end or was stopped
ChatSourceEnded(id) ==
    /\ id \in DOMAIN chatSources
    /\ chatSources[id].state \in {"playing", "stopped"}
    /\ chatSources' = [chatSources EXCEPT ![id].state = "ended"]
    /\ nowPlaying' = IF nowPlaying.source = id THEN NotPlaying ELSE nowPlaying
    /\ UNCHANGED << playCalls, chatContext >>
    /\ UNCHANGED OtherThanChat

ChatNext ==
    \/ \E index \in MessageIndexes : (Len(playCalls) < MaxClicks /\ PlayAudio(index))
    \/ \E c \in 1..MaxClicks : \E outcome \in GenerateContentOutcomes : ChatTtsSettles(c, outcome)
    \/ \E c \in 1..MaxClicks : ChatDecoded(c)
    \/ \E c \in 1..MaxClicks : ChatDecodeFails(c)
    \/ \E id \in 1..MaxClicks : ChatSourceEnded(id)

ChatSpec == Init /\ [][ChatNext]_vars

\* ============================================ AIChatbot: sending a message
MaxSessionId == 3      \* handleNewChat is followed while Date.now() is below this
MaxSends == 2          \* handleSendMessage invocations

\* ChatMessage: its role, the send it belongs to (0: stored before), and
\* whether it is the input, the reply or the error message
ChatMessage(role, send, kind) == [role |-> role, send |-> send, kind |-> kind]

UserMessage(k) == ChatMessage("user", k, "input")

ModelMessage(k) == ChatMessage("model", k, "reply")

\* "Sorry, I encountered an error. Please try again."
ErrorMessage(k) == ChatMessage("model", k, "error")

\* the same for the session that is active when the message is appended
AppendTo_NowActive(prev, id, m) ==
    [i \in DOMAIN prev |->
        IF prev[i].id = activeSessionId
        THEN [prev[i] EXCEPT !.messages = Append(prev[i].messages, m)]
        ELSE prev[i]]

\* prev.map(s => s.id === activeSessionId ? {...s, messages: [...s.messages, m]} : s)
\* where activeSessionId is the one of the render in which the message was sent
AppendTo(prev, id, m) ==
    [i \in DOMAIN prev |->
        IF prev[i].id = id
        THEN [prev[i] EXCEPT !.messages = Append(prev[i].messages, m)]
        ELSE prev[i]]

\* sessions.find(s => s.id === activeSessionId) || null: ChatUI is rendered
ActiveSession == \E i \in DOMAIN sessions : sessions[i].id = activeSessionId

\* the same without the test
SendAccepted_Always(input, isLoading_) == TRUE

\* ChatUI.handleSend: if (!input.trim() || isLoading) return
SendAccepted(input, isLoading_) == Trim(input) # <<>> /\ ~isLoading_

OtherThanBot == << NewsVars, CallVars, ChatVars, SmsVars, LocatorVars, DocVars,
                  ThisSessionVars, successor >>

\* handleNewChat: a session with a new id is put first and becomes active
HandleNewChat ==
    /\ botNow' = botNow + 1
    /\ sessions' = << [id |-> botNow', messages |-> <<>>] >> \o sessions
    /\ activeSessionId' = botNow'
    /\ botInput' = IF ActiveSession THEN botInput ELSE <<>>
    /\ UNCHANGED << botIsLoading, sends, botLanguage >>
    /\ UNCHANGED OtherThanBot

\* handleSelectSession
HandleSelectSession(id) ==
    /\ \E i \in DOMAIN sessions : sessions[i].id = id
    /\ activeSessionId' = id
    /\ botInput' = IF ActiveSession THEN botInput ELSE <<>>
    /\ UNCHANGED << sessions, botIsLoading, sends, botLanguage, botNow >>
    /\ UNCHANGED OtherThanBot

\* handleDeleteSession; without an active session ChatUI and its input go
HandleDeleteSession(id) ==
    /\ \E i \in DOMAIN sessions : sessions[i].id = id
    /\ sessions' = SelectSeq(sessions, LAMBDA x : x.id # id)
    /\ activeSessionId' = IF activeSessionId = id THEN 0 ELSE activeSessionId
    /\ botInput' = IF activeSessionId = id THEN <<>> ELSE botInput
    /\ UNCHANGED << botIsLoading, sends, botLanguage, botNow >>
    /\ UNCHANGED OtherThanBot

\* the user types into the message box (disabled while isLoading)
BotType(text) ==
    /\ ActiveSession
    /\ ~botIsLoading
    /\ botInput' = text
    /\ UNCHANGED << sessions, activeSessionId, botIsLoading, sends, botLanguage, botNow >>
    /\ UNCHANGED OtherThanBot

\* handleSendMessage up to its first await: nothing without an active session;
\* otherwise setIsLoading(true), and in English the user message is appended
\* at once and getChatbotResponse awaited, in another language translateText
\* is awaited first.
HandleSendMessage ==
    IF activeSessionId = 0
    THEN UNCHANGED << sessions, botIsLoading, sends >>
    ELSE /\ botIsLoading' = TRUE
         /\ IF botLanguage = "English"
            THEN /\ sessions' = AppendTo(sessions, activeSessionId,
                                         UserMessage(Len(sends) + 1))
                 /\ sends' = Append(sends, [session |-> activeSessionId,
                                            phase |-> "reply"])
            ELSE /\ sessions' = sessions
                 /\ sends' = Append(sends, [session |-> activeSessionId,
                                            phase |-> "translatingInput"])

\* ChatUI.handleSend: Send is clicked or Enter pressed.  translateText(input,
\* 'English') returns without a service call, so onSendMessage follows before
\* any other event is handled.
HandleSend ==
    /\ ActiveSession
    /\ IF SendAccepted(botInput, botIsLoading)
       THEN botInput' = <<>> /\ HandleSendMessage
       ELSE UNCHANGED << sessions, botIsLoading, sends, botInput >>
    /\ UNCHANGED << activeSessionId, botLanguage, botNow >>
    /\ UNCHANGED OtherThanBot

\* handleSendMessage is called while no session is active (no ChatUI is
\* rendered then: the handler on its own)
SendWithoutSession ==
    /\ activeSessionId = 0
    /\ HandleSendMessage
    /\ UNCHANGED << activeSessionId, botInput, botLanguage, botNow >>
    /\ UNCHANGED OtherThanBot

\* translateText of the user input has returned for invocation k
InputTranslated(k) ==
    /\ k \in DOMAIN sends
    /\ sends[k].phase = "translatingInput"
    /\ sessions' = AppendTo(sessions, sends[k].session, UserMessage(k))
    /\ sends' = [sends EXCEPT ![k].phase = "reply"]
    /\ UNCHANGED << activeSessionId, botIsLoading, botInput, botLanguage, botNow >>
    /\ UNCHANGED OtherThanBot

\* getChatbotResponse resolves for invocation k; in English the reply is
\* appended and isLoading reset, otherwise translateText is awaited
ReplyArrives(k) ==
    /\ k \in DOMAIN sends
    /\ sends[k].phase = "reply"
    /\ IF botLanguage = "English"
       THEN /\ sessions' = AppendTo(sessions, sends[k].session, ModelMessage(k))
            /\ sends' = [sends EXCEPT ![k].phase = "done"]
            /\ botIsLoading' = FALSE
       ELSE /\ sends' = [sends EXCEPT ![k].phase = "translatingReply"]
            /\ UNCHANGED << sessions, botIsLoading >>
    /\ UNCHANGED << activeSessionId, botInput, botLanguage, botNow >>
    /\ UNCHANGED OtherThanBot

\* translateText of the reply has returned for invocation k
ReplyTranslated(k) ==
    /\ k \in DOMAIN sends
    /\ sends[k].phase = "translatingReply"
    /\ sessions' = AppendTo(sessions, sends[k].session, ModelMessage(k))
    /\ sends' = [sends EXCEPT ![k].phase = "done"]
    /\ botIsLoading' = FALSE
    /\ UNCHANGED << activeSessionId, botInput, botLanguage, botNow >>
    /\ UNCHANGED OtherThanBot

\* getChatbotResponse rejects (or has no text to read) for invocation k: the
\* catch block appends the error message
ReplyFails(k) ==
    /\ k \in DOMAIN sends
    /\ sends[k].phase = "reply"
    /\ sessions' = AppendTo(sessions, sends[k].session, ErrorMessage(k))
    /\ sends' = [sends EXCEPT ![k].phase = "done"]
    /\ botIsLoading' = FALSE
    /\ UNCHANGED << activeSessionId, botInput, botLanguage, botNow >>
    /\ UNCHANGED OtherThanBot

\* what is typed into the message box
BotInputs == {<<>>, << " " >>, << "a" >>}

\* a session that loadChatHistory found in the storage
StoredSession == [id |-> 1, messages |-> << UserMessage(0), ModelMessage(0) >>]

\* AIChatbot is rendered in some language over the history of earlier visits
BotInit ==
    /\ SessionInit
    /\ NewsIdle
    /\ CallIdle
    /\ ChatInit
    /\ SmsInit
    /\ LocatorIdle
    /\ DocIdle
    /\ sessions \in {<<>>, << StoredSession >>}
    /\ activeSessionId = 0
    /\ botIsLoading = FALSE
    /\ botInput = <<>>
    /\ sends = <<>>
    /\ botLanguage \in Languages
    /\ botNow = 1

BotNext ==
    \/ (botNow < MaxSessionId /\ HandleNewChat)
    \/ \E id \in 1..MaxSessionId : HandleSelectSession(id)
    \/ \E id \in 1..MaxSessionId : HandleDeleteSession(id)
    \/ \E text \in BotInputs : BotType(text)
    \/ (Len(sends) < MaxSends /\ HandleSend)
    \/ (Len(sends) < MaxSends /\ SendWithoutSession)
    \/ \E k \in 1..MaxSends : InputTranslated(k)
    \/ \E k \in 1..MaxSends : ReplyArrives(k)
    \/ \E k \in 1..MaxSends : ReplyTranslated(k)
    \/ \E k \in 1..MaxSends : ReplyFails(k)

BotSpec == BotInit /\ [][BotNext]_vars

\* ================================================================= SMSHelp
MaxSmsSends == 2       \* getChatbotResponse calls of SMSHelp

\* "Sorry, I couldn't process that. Please try again."
Apology == [sender |-> "bot", text |-> "sorry"]

\* the text of response.text
BotReply == [sender |-> "bot", text |-> "reply"]

\* the history with the welcome message left in
SmsHistory_KeepsWelcome(messages) ==
    [n \in DOMAIN messages |->
        [role |-> IF messages[n].sender = "user" THEN "user" ELSE "model",
         text |-> messages[n].text]]

\* messages.map(msg => ({role, parts: [{text}]})).slice(1)
SmsHistory(messages) ==
    Tail([n \in DOMAIN messages |->
            [role |-> IF messages[n].sender = "user" THEN "user" ELSE "model",
             text |-> messages[n].text]])

\* if (!trimmedInput || isLoading) return
SmsSendAccepted(input, isLoading_) == Trim(input) # <<>> /\ ~isLoading_

OtherThanSms == << NewsVars, CallVars, ChatVars, BotVars, LocatorVars, DocVars,
                  ThisSessionVars, successor >>

\* the user types into the SMS box
SmsType(text) ==
    /\ smsInput' = text
    /\ UNCHANGED << smsMessages, smsIsLoading, smsCalls >>
    /\ UNCHANGED OtherThanSms

\* SMSHelp.handleSend up to await getChatbotResponse
SmsHandleSend ==
    /\ IF SmsSendAccepted(smsInput, smsIsLoading)
       THEN /\ smsMessages' = Append(smsMessages,
                                     [sender |-> "user", text |-> Trim(smsInput)])
            /\ smsInput' = <<>>
            /\ smsIsLoading' = TRUE
            /\ smsCalls' = Append(smsCalls, [history |-> SmsHistory(smsMessages),
                                             message |-> Trim(smsInput),
                                             phase |-> "pending"])
       ELSE UNCHANGED << smsMessages, smsInput, smsIsLoading, smsCalls >>
    /\ UNCHANGED OtherThanSms

\* getChatbotResponse resolves for call k
SmsReplyArrives(k) ==
    /\ k \in DOMAIN smsCalls
    /\ smsCalls[k].phase = "pending"
    /\ smsMessages' = Append(smsMessages, BotReply)
    /\ smsIsLoading' = FALSE
    /\ smsCalls' = [smsCalls EXCEPT ![k].phase = "done"]
    /\ UNCHANGED smsInput
    /\ UNCHANGED OtherThanSms

\* getChatbotResponse rejects for call k
SmsReplyFails(k) ==
    /\ k \in DOMAIN smsCalls
    /\ smsCalls[k].phase = "pending"
    /\ smsMessages' = Append(smsMessages, Apology)
    /\ smsIsLoading' = FALSE
    /\ smsCalls' = [smsCalls EXCEPT ![k].phase = "done"]
    /\ UNCHANGED smsInput
    /\ UNCHANGED OtherThanSms

\* what is typed into the SMS box
SmsInputs == {<<>>, << " " >>, << "a" >>, << " ", "a" >>, << "b" >>}

SmsNext ==
    \/ \E text \in SmsInputs : SmsType(text)
    \/ (Len(smsCalls) < MaxSmsSends /\ SmsHandleSend)
    \/ \E k \in 1..MaxSmsSends : SmsReplyArrives(k)
    \/ \E k \in 1..MaxSmsSends : SmsReplyFails(k)

SmsSpec == Init /\ [][SmsNext]_vars

\* =========================================================== ExpertLocator
MaxPending == 2        \* handleSearch invocations awaiting findLegalAid at a time

\* [trimmedQuery, ...filtered].slice(0, 5)
HistoryLimit == 5

\* the update of the history with a case-sensitive filter
UpdateHistory_CaseSensitive(prev, trimmedQuery) ==
    LET filtered == SelectSeq(prev, LAMBDA item : item # trimmedQuery)
        updated == << trimmedQuery >> \o filtered
    IN  SubSeq(updated, 1, IF Len(updated) < HistoryLimit THEN Len(updated) ELSE HistoryLimit)

\* the updater given to setSearchHistory: the query first, the entries equal
\* to it in lower case removed, at most five kept
UpdateHistory(prev, trimmedQuery) ==
    LET lowerCaseQuery == ToLowerCase(trimmedQuery)
        filtered == SelectSeq(prev, LAMBDA item : ToLowerCase(item) # lowerCaseQuery)
        updated == << trimmedQuery >> \o filtered
    IN  SubSeq(updated, 1, IF Len(updated) < HistoryLimit THEN Len(updated) ELSE HistoryLimit)

OtherThanLocator == << NewsVars, CallVars, ChatVars, BotVars, SmsVars, DocVars,
                      ThisSessionVars, successor >>

\* handleSearch up to await findLegalAid: nothing for a blank query.  (In a
\* language other than English translateText(query, 'English') is awaited
\* first, which returns without a service call.)
LocatorSearch(searchQuery) ==
    /\ locatorPending' = IF Trim(searchQuery) = <<>> THEN locatorPending
                         ELSE locatorPending \cup {Trim(searchQuery)}
    /\ UNCHANGED searchHistory
    /\ UNCHANGED OtherThanLocator

\* findLegalAid resolves for the search of trimmedQuery
LocatorFound(trimmedQuery) ==
    /\ trimmedQuery \in locatorPending
    /\ locatorPending' = locatorPending \ {trimmedQuery}
    /\ searchHistory' = UpdateHistory(searchHistory, trimmedQuery)
    /\ UNCHANGED OtherThanLocator

\* findLegalAid rejects for the search of trimmedQuery
LocatorFails(trimmedQuery) ==
    /\ trimmedQuery \in locatorPending
    /\ locatorPending' = locatorPending \ {trimmedQuery}
    /\ UNCHANGED searchHistory
    /\ UNCHANGED OtherThanLocator

\* the queries searched for
LocatorQueries ==
    {<<>>, << " " >>, << " ", "e" >>, << "e" >>, << "E" >>, << "n" >>, << "g" >>,
     << "l" >>, << "i" >>, << "s" >>}

\* a full history found in the storage
StoredHistory == << << "e" >>, << "n" >>, << "g" >>, << "l" >>, << "i" >> >>

\* ExpertLocator is rendered over the history of earlier visits
LocatorInit ==
    /\ SessionInit
    /\ NewsIdle
    /\ CallIdle
    /\ ChatInit
    /\ BotIdle
    /\ SmsInit
    /\ DocIdle
    /\ searchHistory \in {<<>>, StoredHistory}
    /\ locatorPending = {}

LocatorNext ==
    \/ \E q \in LocatorQueries : (Cardinality(locatorPending) < MaxPending /\ LocatorSearch(q))
    \/ \E q \in LocatorQueries : LocatorFound(q)
    \/ \E q \in LocatorQueries : LocatorFails(q)

LocatorSpec == LocatorInit /\ [][LocatorNext]_vars

\* ======================================================= DocumentGenerator
MaxSaved == 2          \* handleGenerate is followed while fewer documents were saved

\* the keys of documentTypes ("" is the empty choice of the select box)
DocTypeKeys == {"", "nda"}

\* response.text of generateDocument with the code fences removed
EnglishDocHtml == << "a" >>

\* LANGUAGE_MAP[language] of a language other than English
DocTargetLanguage == << "H", "i", "n", "d", "i" >>

\* what generateDocument does: it resolves with a response with text or
\* without, or it rejects
GenerateOutcomes == {"text", "noText", "rejects"}

OtherThanDoc == << NewsVars, CallVars, ChatVars, BotVars, SmsVars, LocatorVars,
                  ThisSessionVars, successor >>

\* step 1: a document type is chosen
SelectDocType(key) ==
    /\ step = 1
    /\ docTypeKey' = key
    /\ details' = ""
    /\ UNCHANGED << step, docIsLoading, generatedDoc, docError, savedDocuments,
                    generate, docLanguage >>
    /\ UNCHANGED OtherThanDoc

\* step 1: Next (disabled without a document type)
ToDetails ==
    /\ step = 1
    /\ docTypeKey # ""
    /\ step' = 2
    /\ UNCHANGED << docTypeKey, details, docIsLoading, generatedDoc, docError,
                    savedDocuments, generate, docLanguage >>
    /\ UNCHANGED OtherThanDoc

\* step 2: Back
BackToType ==
    /\ step = 2
    /\ step' = 1
    /\ UNCHANGED << docTypeKey, details, docIsLoading, generatedDoc, docError,
                    savedDocuments, generate, docLanguage >>
    /\ UNCHANGED OtherThanDoc

\* handleDetailChange
HandleDetailChange ==
    /\ step = 2
    /\ details' = "filled"
    /\ UNCHANGED << step, docTypeKey, docIsLoading, generatedDoc, docError,
                    savedDocuments, generate, docLanguage >>
    /\ UNCHANGED OtherThanDoc

\* handleGenerate up to await generateDocument (Generate is disabled while
\* isLoading).  In a language other than English the label and the details go
\* through translateText(.., 'English') first, which returns without a
\* service call.
HandleGenerate ==
    /\ step = 2
    /\ ~docIsLoading
    /\ docIsLoading' = TRUE
    /\ generatedDoc' = <<>>
    /\ docError' = ""
    /\ generate' = "generating"
    /\ UNCHANGED << step, docTypeKey, details, savedDocuments, docLanguage >>
    /\ UNCHANGED OtherThanDoc

\* setGeneratedDoc(translatedDoc); onSaveDocument(newDocument); setStep(3);
\* finally setIsLoading(false)
DocumentReady(translatedDoc) ==
    /\ generatedDoc' = translatedDoc
    /\ savedDocuments' = Append(savedDocuments, translatedDoc)
    /\ step' = 3
    /\ docIsLoading' = FALSE
    /\ generate' = "idle"
    /\ UNCHANGED docError

\* catch: setError(..); finally setIsLoading(false)
GenerationFailed ==
    /\ docError' = "Failed to generate document. Please try again."
    /\ docIsLoading' = FALSE
    /\ generate' = "idle"
    /\ UNCHANGED << step, generatedDoc, savedDocuments >>

\* generateDocument settles: without a text response.text.replace throws
GenerateSettles(o) ==
    /\ generate = "generating"
    /\ CASE o = "text" /\ docLanguage = "English" -> DocumentReady(EnglishDocHtml)
         [] o = "text" /\ docLanguage # "English" ->
              /\ generate' = "translating"
              /\ UNCHANGED << step, docIsLoading, generatedDoc, docError, savedDocuments >>
         [] OTHER -> GenerationFailed
    /\ UNCHANGED << docTypeKey, details, docLanguage >>
    /\ UNCHANGED OtherThanDoc

\* translateText(englishDocHtml, LANGUAGE_MAP[language]) returns, the service
\* having done o
DocTranslated(o) ==
    /\ generate = "translating"
    /\ LET r == translateText(EnglishDocHtml, DocTargetLanguage, o)
       IN  IF r.kind = "returns" THEN DocumentReady(r.value) ELSE GenerationFailed
    /\ UNCHANGED << docTypeKey, details, docLanguage >>
    /\ UNCHANGED OtherThanDoc

\* startOver (step 3)
StartOver ==
    /\ step = 3
    /\ step' = 1
    /\ docTypeKey' = ""
    /\ details' = ""
    /\ generatedDoc' = <<>>
    /\ docError' = ""
    /\ UNCHANGED << docIsLoading, savedDocuments, generate, docLanguage >>
    /\ UNCHANGED OtherThanDoc

\* DocumentGenerator is rendered in some language
DocInit ==
    /\ SessionInit
    /\ NewsIdle
    /\ CallIdle
    /\ ChatInit
    /\ BotIdle
    /\ SmsInit
    /\ LocatorIdle
    /\ DocStart
    /\ docLanguage \in Languages

DocNext ==
    \/ \E key \in DocTypeKeys : SelectDocType(key)
    \/ ToDetails
    \/ BackToType
    \/ HandleDetailChange
    \/ (Len(savedDocuments) < MaxSaved /\ HandleGenerate)
    \/ \E o \in GenerateOutcomes : GenerateSettles(o)
    \/ \E o \in TranslateOutcomes : DocTranslated(o)
    \/ StartOver

DocSpec == DocInit /\ [][DocNext]_vars

\* ------------------------------------------------------------------ claims
\* number of accumulators whose trimmed text is not empty
NonBlank(userInput, judgeOutput) ==
    (IF Trim(userInput) # <<>> THEN 1 ELSE 0) + (IF Trim(judgeOutput) # <<>> THEN 1 ELSE 0)

\* C1: whatever fragments came before, handling a message with turnComplete
\* adds to the transcript log one entry per accumulator whose trimmed text is
\* not empty, so at most two, and leaves both accumulators (the refs and their
\* displayed copies) empty.
C1_TurnCommit ==
    [][\A m \in TextMessages :
         (m.turnComplete /\ OnMessage(m)) =>
            /\ Len(transcripts') <= Len(transcripts) + 2
            /\ Len(transcripts') - Len(transcripts) =
                  NonBlank(currentUserInputRef \o m.inputTranscription,
                           currentJudgeOutputRef \o m.outputTranscription)
            /\ currentUserInputRef' = <<>>
            /\ currentJudgeOutputRef' = <<>>
            /\ currentUserInput' = <<>>
            /\ currentJudgeOutput' = <<>>]_vars

\* C1 witness: a turn was committed with only the judge's text, after fragments
\* had been accumulated, and the accumulators are empty again
C1_Witness ==
    /\ transcripts = << [speaker |-> "Judge", text |-> <<"a", "a">>] >>
    /\ currentUserInputRef = <<>>
    /\ currentJudgeOutputRef = <<>>

\* the end of the frame scheduled last
PreviousEnd ==
    IF started = <<>> THEN 0
    ELSE started[Len(started)].when + started[Len(started)].dur

\* C2 (as claimed): whenever a decoded frame is scheduled, the time passed to
\* source.start is the later of the playback clock at that moment and the end
\* of the frame scheduled before it, and frame k+1 never starts before the end
\* of frame k.
C2_GaplessAsClaimed ==
    [][\A f \in decoding :
         DecodeDone(f) =>
            /\ started'[Len(started')].when = Max(clock, PreviousEnd)
            /\ \A i, j \in DOMAIN started' :
                  started'[j].id = started'[i].id + 1 =>
                     started'[j].when >= started'[i].when + started'[i].dur]_vars

\* C3 (as claimed): while the channel is open and the session has not been
\* ended, the status is 'speaking' exactly when a playback source is active.
C3_SpeakingIffActive ==
    (channel = "open" /\ mounted /\ status # "ended") =>
        (status = "speaking" <=> outputSourcesRef # {})

\* every handle of r is released
Released(r) ==
    /\ \A s \in r.outputSourcesRef : s.stopped
    /\ r.mediaStreamRef \in {"none", "stopped"}
    /\ r.scriptProcessorRef \in {"none", "disconnected"}
    /\ r.audioContextRef \in {"none", "closing", "closed"}
    /\ r.channel \notin {"connecting", "open"}
    /\ r.outputAudioContextRef \in {"none", "closing", "closed"}

\* C4 (as claimed): after any run of the end-session sequence, a second run
\* right after it leaves every resource handle released and changes nothing.
C4_IdempotentTeardown ==
    [][(HandleEndSession \/ Unmount) =>
          /\ Released(CleanUpResult(Resources'))
          /\ CleanUpResult(Resources') = Resources']_vars

\* in the last cleanUp every call a came before every call b
Before(a, b) ==
    \A i, j \in DOMAIN releaseLog :
        (releaseLog[i] = a /\ releaseLog[j] = b) => i < j

CodeOrder ==
    << "mediaStream", "scriptProcessor", "audioContext", "outputSources",
       "outputAudioContext", "session" >>

C6_CorruptFrameKeepsStatus ==
    [][\A m \in AudioMessages :
         (m.audio = CorruptAudio /\ outputAudioContextRef # "none" /\ OnMessage(m)) =>
            status' = status]_vars

\* C7: when getUserMedia fails while the mounted component shows 'starting',
\* the status becomes 'error'; and once it has failed no captured frame is
\* ever passed to sendRealtimeInput or queued for it.
C7_MicDeniedSendsNothing ==
    [][/\ (MicDenied /\ mounted /\ status = "starting") => status' = "error"
       /\ micRequest' = "denied" =>
             /\ sentLog' = <<>>
             /\ SendsOf(thenQueue') = <<>>
             /\ scriptProcessorRef' = "none"]_vars

\* C7 witness: the microphone was denied during 'starting', and the session
\* went on to its end without a frame sent
C7_Witness ==
    /\ micRequest = "denied"
    /\ error = "Microphone access is required. Please grant permission and try again."
    /\ status = "ended"
    /\ sentLog = <<>>

\* C8 (as claimed): once onerror or onclose has fired, sendRealtimeInput is
\* not called again.
C8_NoSendAfterTerminal ==
    [][(channel \in {"errored", "closed"}) => (sentLog' = sentLog)]_vars

\* C9 (as claimed): when the text-to-speech call rejects or returns no audio,
\* the mounted session goes from 'initializing' to 'starting', not to 'error'.
C9_TtsFailureStillStarts ==
    [][((TtsRejects \/ TtsReturnsNull) /\ mounted /\ status = "initializing") =>
          status' = "starting"]_vars

\* C10 (as claimed): once the status is 'ended' it stays 'ended'.
C10_EndedIsFinal ==
    [][(status = "ended") => (status' = "ended")]_vars

\* C11 (as claimed): while the status is 'error', no inbound message and no
\* playback completion changes it to 'listening' or 'speaking'.
C11_ErrorIsInert ==
    [][(/\ status = "error"
        /\ \/ \E m \in AudioMessages : OnMessage(m)
           \/ \E s \in outputSourcesRef : SourceEnded(s)) =>
          status' \notin {"listening", "speaking"}]_vars

\* C12 (as claimed): when onerror fires or the connect promise rejects, the
\* mounted session shows 'error' and every handle it holds is released.
C12_ErrorTearsDown ==
    [][((OnError \/ ConnectFails) /\ mounted) =>
          /\ status' = "error"
          /\ Released(Resources')]_vars

\* C13 (as claimed): of two frames passed to source.start, the one that
\* arrived first is given the earlier start time.
C13_ArrivalOrderIsPlayOrder ==
    \A i, j \in DOMAIN started :
        started[i].id < started[j].id => started[i].when < started[j].when

\* C14 (as claimed): this session and the session started after it never
\* hold a live microphone stream at the same time.
C14_OneMicrophoneHolder ==
    ~(mediaStreamRef = "live" /\ successor = "micLive")

\* C15: a capture callback that runs while the connect promise is pending
\* returns at once, leaving its frame chained on the promise behind the frames
\* chained before it; no frame leaves the chain while the promise is pending;
\* and when the promise resolves every chained frame is passed to
\* sendRealtimeInput, in capture order.
C15_DeferredSend ==
    [][/\ (OnAudioProcess /\ sessionPromiseRef = "pending") =>
             /\ sessionPromiseRef' = "pending"
             /\ SendsOf(thenQueue') = Append(SendsOf(thenQueue), captured')
             /\ sentLog' = sentLog
       /\ (sessionPromiseRef = "pending" /\ sessionPromiseRef' = "pending") =>
             /\ Len(SendsOf(thenQueue')) >= Len(SendsOf(thenQueue))
             /\ SubSeq(SendsOf(thenQueue'), 1, Len(SendsOf(thenQueue))) = SendsOf(thenQueue)
       /\ (sessionPromiseRef = "pending" /\ sessionPromiseRef' = "resolved") =>
             sentLog' = sentLog \o SendsOf(thenQueue)]_vars

\* C15 witness: a frame was captured before the connect promise resolved and
\* waits on it
C15_Witness ==
    /\ sessionPromiseRef = "pending"
    /\ captured = 1
    /\ SendsOf(thenQueue) = << 1 >>
    /\ sentLog = <<>>

\* the entries a turn adds for the accumulated texts userInput and judgeOutput
TurnEntries(userInput, judgeOutput) ==
       (IF Trim(userInput) # <<>>
        THEN << [speaker |-> "You", text |-> Trim(userInput)] >> ELSE <<>>)
    \o (IF Trim(judgeOutput) # <<>>
        THEN << [speaker |-> "Judge", text |-> Trim(judgeOutput)] >> ELSE <<>>)

C17_JudgeOnlyAndOrder ==
    [][\A m \in TextMessages :
         (m.turnComplete /\ OnMessage(m)) =>
            LET userInput == currentUserInputRef \o m.inputTranscription
                judgeOutput == currentJudgeOutputRef \o m.outputTranscription
                n == Len(transcripts)
            IN  /\ (Trim(userInput) = <<>> /\ Trim(judgeOutput) # <<>>) =>
                      transcripts' = Append(transcripts,
                                            [speaker |-> "Judge", text |-> Trim(judgeOutput)])
                /\ (Trim(userInput) # <<>> /\ Trim(judgeOutput) # <<>>) =>
                      /\ Len(transcripts') = n + 2
                      /\ SubSeq(transcripts', 1, n) = transcripts
                      /\ transcripts'[n + 1] = [speaker |-> "You", text |-> Trim(userInput)]
                      /\ transcripts'[n + 2] = [speaker |-> "Judge", text |-> Trim(judgeOutput)]]_vars

\* C17 witness: a turn in which both had spoken was committed, the user's
\* entry first
C17_Witness ==
    /\ Len(transcripts) = 2
    /\ transcripts[1].speaker = "You"
    /\ transcripts[2] = [speaker |-> "Judge", text |-> << "a", "a" >>]
    /\ currentUserInputRef = <<>>

\* C18: a rejected getUserMedia, a rejected connect promise and an onerror
\* event each leave the mounted session with status 'error' and a non-empty
\* error text, and none of them starts a connection or a microphone request.
C18_ErrorsNoRetry ==
    [][(MicDenied \/ ConnectFails \/ OnError) =>
          /\ mounted => (status' = "error" /\ error' # "")
          /\ (channel' = "connecting") => FALSE
          /\ (sessionPromiseRef' = "pending") => (sessionPromiseRef = "pending")
          /\ (micRequest' = "pending") => (micRequest = "pending")]_vars

\* C18 witness: the microphone was denied and then the transport reported an
\* error; the session shows the error and nothing was started again
C18_Witness ==
    /\ micRequest = "denied"
    /\ channel = "errored"
    /\ status = "error"
    /\ error = "A connection error occurred."

\* C19 (as claimed): whenever the status is 'listening' the channel is open
\* and getUserMedia has resolved with a stream.
C19_ListeningMeansCapturing ==
    (status = "listening") => (channel = "open" /\ micRequest = "granted")

\* C20: ai.live.connect is called only by the step in which the text-to-speech
\* call returns no audio or the opening source ends, and only if it was never
\* called before; until the opening statement is over (and when it failed)
\* there is no connect promise and no channel.
C20_ConnectAfterOpeningOnce ==
    [][/\ ((sessionPromiseRef' = "pending" /\ sessionPromiseRef # "pending")
           \/ (channel' = "connecting" /\ channel # "connecting")) =>
             /\ sessionPromiseRef = "null"
             /\ channel = "none"
             /\ TtsReturnsNull \/ OpeningEnded
       /\ (opening' \in {"tts", "decoding", "playing", "failed"}) =>
             (sessionPromiseRef' = "null" /\ channel' = "none")]_vars

\* C20 witness: the opening audio was played to its end and the channel, opened
\* after it, is open
C20_Witness ==
    /\ opening = "done"
    /\ outputAudioContextRef = "running"
    /\ sessionPromiseRef = "resolved"
    /\ channel = "open"

\* cleanUp has run: End Session was clicked or the component was unmounted
Ended == status = "ended" \/ ~mounted

ActiveSources(sources) == {s.id : s \in sources}

\* C22: a capture callback leaves the active playback sources, the next start
\* time, both transcript accumulators, the transcript log and the status as
\* they were; and a step that changes the membership of the active set is the
\* scheduling of a decoded frame by onmessage or a source's 'ended' listener.
C22_CaptureTouchesNothing ==
    [][/\ OnAudioProcess =>
             UNCHANGED << outputSourcesRef, nextStartTimeRef, currentUserInputRef,
                          currentJudgeOutputRef, currentUserInput, currentJudgeOutput,
                          transcripts, status >>
       /\ ActiveSources(outputSourcesRef') # ActiveSources(outputSourcesRef) =>
             \/ \E f \in decoding : DecodeDone(f)
             \/ \E s \in outputSourcesRef : SourceEnded(s)]_vars

\* C22 witness: a microphone buffer was captured and sent while a source was
\* playing behind the clock and partial texts were held, and all of it is
\* still there
C22_Witness ==
    /\ captured = 1
    /\ sentLog = << 1 >>
    /\ status = "speaking"
    /\ outputSourcesRef # {}
    /\ nextStartTimeRef > clock
    /\ currentUserInputRef # <<>>
    /\ currentJudgeOutputRef # <<>>

\* the first n capture callbacks, in capture order
Frames(n) == [i \in 1..n |-> i]

\* C23: the frames passed to sendRealtimeInput are the first frames captured,
\* in capture order; the frames that wait on the pending connect promise are
\* the ones captured after them, in capture order; and once the promise has
\* resolved every captured frame has been passed on.
C23_SentInCaptureOrder ==
    /\ sentLog = Frames(Len(sentLog))
    /\ sessionPromiseRef = "pending" => sentLog \o SendsOf(thenQueue) = Frames(captured)
    /\ sessionPromiseRef = "resolved" => sentLog = Frames(captured)

\* C23 witness: three frames were captured, before or after the connect
\* promise resolved, and all three were passed on
C23_Witness ==
    /\ sentLog = << 1, 2, 3 >>
    /\ sessionPromiseRef = "resolved"

\* C24 (as claimed): once the component is unmounted, no channel is opened
\* and no microphone stream or audio context is acquired.
C24_NothingAcquiredAfterEnd ==
    [][~mounted =>
          /\ (channel' = "connecting") => (channel = "connecting")
          /\ (micRequest' = "pending") => (micRequest = "pending")
          /\ (mediaStreamRef' = "live") => (mediaStreamRef = "live")
          /\ (audioContextRef' = "running") => (audioContextRef = "running")
          /\ (outputAudioContextRef' = "running") => (outputAudioContextRef = "running")]_vars

\* C25 (as claimed): whatever step is taken, an article of the pending cache
\* is afterwards still in the pending cache, or it is in the main cache and in
\* the displayed list.
C25_NoArticleLost ==
    [][\A h \in HeadlinesOf(latestNewsCache) :
          \/ h \in HeadlinesOf(latestNewsCache')
          \/ (h \in HeadlinesOf(newsCache') /\ h \in HeadlinesOf(results'.items))]_vars

\* no two articles of a list have the same headline
NoDuplicate(list) ==
    \A i, j \in DOMAIN list : list[i].headline = list[j].headline => i = j

Range(list) == {list[i] : i \in DOMAIN list}

\* C26: when backgroundFetch gets an answer with articles whose headlines were
\* not in the main cache it had read, it writes a pending cache without
\* duplicate headlines, made of the old pending articles and such new ones, and
\* sets newArticlesAvailable; otherwise it leaves both as they are.  The main
\* cache written by handleLoadNewArticles has no duplicate headlines.
C26_CachesWithoutDuplicates ==
    [][/\ (fetch.phase = "fetching" /\ fetch'.phase = "idle") =>
           \A o \in NewsOutcomes :
             BackgroundFetchDone(o) =>
                LET r == getLegalNews(o)
                    new == {a \in Range(r.value) : a.headline \notin fetch.existingHeadlines}
                IN  IF r.kind = "returns" /\ new # {}
                    THEN /\ NoDuplicate(latestNewsCache')
                         /\ Range(latestNewsCache') \subseteq Range(latestNewsCache) \cup new
                         /\ HeadlinesOf(latestNewsCache') =
                               HeadlinesOf(latestNewsCache) \cup {a.headline : a \in new}
                         /\ newArticlesAvailable'
                    ELSE UNCHANGED << latestNewsCache, newArticlesAvailable >>
       /\ (load.phase = "translating" /\ LoadNewArticlesDone) =>
             /\ NoDuplicate(newsCache')
             /\ HeadlinesOf(newsCache') =
                   HeadlinesOf(newsCache) \cup HeadlinesOf(load.newEnglishArticles)]_vars

\* C26 witness: backgroundFetch has added an article to a pending cache that
\* held one already
C26_Witness ==
    /\ Len(latestNewsCache) = 2
    /\ newArticlesAvailable
    /\ fetch.phase = "idle"

\* C27 (as claimed): when getLegalNews fails in handleSearch, the main cache is
\* as before, isLoading is false, the error is set, and a list that was
\* displayed is still displayed.
C27_FailedSearchKeepsList ==
    [][(search.phase = "fetching" /\ search'.phase = "idle") =>
        \A o \in NewsOutcomes :
          (getLegalNews(o).kind = "throws" /\ SearchResponse(o)) =>
             /\ newsCache' = newsCache
             /\ ~isLoading'
             /\ newsError' # ""
             /\ (~results.isNull /\ results.items # <<>>) => results' = results]_vars

\* the spellings of "english" in any letter case
EnglishInAnyCase ==
    {str \in [1..Len(english) -> {Uppers[k] : k \in DOMAIN Uppers}
                                   \cup {Lowers[k] : k \in DOMAIN Lowers}] :
        \A i \in 1..Len(english) :
            \E k \in DOMAIN Lowers :
                Lowers[k] = english[i] /\ str[i] \in {Lowers[k], Uppers[k]}}

\* C28: a call of translateText returns and does not throw; when the target
\* language is "english" in any letter case, or the text is empty, it returns
\* the text it was given without calling the service; when the service call
\* fails it returns the text it was given.
C28_TranslateNeverThrows ==
    (call.fn = "translateText" /\ ret.kind # "none") =>
        /\ ret.kind = "returns"
        /\ (call.targetLanguage \in EnglishInAnyCase \/ call.text = <<>>) =>
              (ret.value = call.text /\ ~ret.serviceCalled)
        /\ call.outcome.kind \in {"rejects", "noText"} => ret.value = call.text

\* C28 witness: translateText has returned from a call with a text that is not
\* empty and the target language ENGLISH, for which the service would have
\* answered with another text
C28_Witness ==
    /\ call.fn = "translateText"
    /\ ret.kind = "returns"
    /\ call.text # <<>>
    /\ call.targetLanguage = << "E", "N", "G", "L", "I", "S", "H" >>
    /\ call.outcome.kind = "text"
    /\ Trim(call.outcome.text) # call.text

\* C29 (as claimed): getRelatedNews returns, and returns the empty list
\* whenever the service call rejects or its answer does not parse or is not an
\* array; getLegalNews throws 'Could not retrieve or parse news data.' when
\* the answer does not parse and returns the empty list when it is not an array.
C29_RelatedNewsReturnsEmpty ==
    /\ (call.fn = "getRelatedNews" /\ ret.kind # "none") =>
          /\ ret.kind = "returns"
          /\ call.outcome.kind # "array" => ret.value = <<>>
    /\ (call.fn = "getLegalNews" /\ ret.kind # "none") =>
          /\ call.outcome.kind = "unparseable" =>
                (ret.kind = "throws" /\ ret.message = "Could not retrieve or parse news data.")
          /\ call.outcome.kind = "notArray" => (ret.kind = "returns" /\ ret.value = <<>>)

\* C30 (as claimed): at most one source of ChatUI plays at any time
C30_AtMostOnePlaying ==
    Cardinality({id \in DOMAIN chatSources : chatSources[id].state = "playing"}) <= 1

\* the messages of send k in a list of messages
MessagesOf(k, messages) == SelectSeq(messages, LAMBDA m : m.send = k)

\* C31: after every step, messages of a send are only in the session that was
\* active when it was sent; once the send is done that session, if it still
\* exists, holds the user message and then the reply or one model-role error
\* message, once each; a step changes the messages of a session only by
\* appending a message of a send to that session; a call without an active
\* session changes nothing; and when a send completes isLoading is false.
C31_SendGoesToItsSession ==
    [][/\ \A k \in DOMAIN sends' : \A i \in DOMAIN sessions' :
             /\ MessagesOf(k, sessions'[i].messages) # <<>> =>
                   sessions'[i].id = sends'[k].session
             /\ (sends'[k].phase = "done" /\ sessions'[i].id = sends'[k].session) =>
                   MessagesOf(k, sessions'[i].messages) \in
                      {<< UserMessage(k), ModelMessage(k) >>,
                       << UserMessage(k), ErrorMessage(k) >>}
       /\ \A i \in DOMAIN sessions : \A j \in DOMAIN sessions' :
             sessions[i].id = sessions'[j].id =>
                \/ sessions'[j].messages = sessions[i].messages
                \/ \E k \in DOMAIN sends' :
                      /\ sends'[k].session = sessions[i].id
                      /\ \E m \in {UserMessage(k), ModelMessage(k), ErrorMessage(k)} :
                            sessions'[j].messages = Append(sessions[i].messages, m)
       /\ SendWithoutSession => UNCHANGED << sessions, sends, botIsLoading >>
       /\ \A k \in DOMAIN sends :
             (sends[k].phase # "done" /\ sends'[k].phase = "done") => ~botIsLoading']_vars

\* C31 witness: a send is done whose session is no longer the active one,
\* another session having been created since, and its two messages are in it
C31_Witness ==
    \E k \in DOMAIN sends : \E i \in DOMAIN sessions :
        /\ sends[k].phase = "done"
        /\ activeSessionId \notin {0, sends[k].session}
        /\ activeSessionId > sends[k].session
        /\ sessions[i].id = sends[k].session
        /\ Len(MessagesOf(k, sessions[i].messages)) = 2

C33_SmsSendsAlternate ==
    [][/\ ((Trim(smsInput) = <<>> \/ smsIsLoading) /\ SmsHandleSend) =>
             UNCHANGED << smsMessages, smsCalls >>
       /\ (Trim(smsInput) # <<>> /\ ~smsIsLoading /\ SmsHandleSend) =>
             /\ smsMessages' = Append(smsMessages,
                                      [sender |-> "user", text |-> Trim(smsInput)])
             /\ Len(smsCalls') = Len(smsCalls) + 1
             /\ LET history == smsCalls'[Len(smsCalls')].history
                IN  /\ Len(history) = Len(smsMessages) - 1
                    /\ \A n \in DOMAIN history :
                          /\ history[n].text = smsMessages[n + 1].text
                          /\ history[n].role =
                                IF smsMessages[n + 1].sender = "user" THEN "user" ELSE "model"
       /\ \A k \in DOMAIN smsCalls :
             (smsCalls[k].phase = "pending" /\ smsCalls'[k].phase = "done") =>
                \/ smsMessages' = Append(smsMessages, BotReply)
                \/ smsMessages' = Append(smsMessages, Apology)
       /\ smsMessages'[1] = Welcome
       /\ \A n \in 2..Len(smsMessages') :
             smsMessages'[n].sender = IF n % 2 = 0 THEN "user" ELSE "bot"]_vars

\* C33 witness: two sends were accepted and answered, the second one by the
\* apology, and the second call was given the first exchange as its history
C33_Witness ==
    /\ Len(smsCalls) = 2
    /\ smsCalls[2].phase = "done"
    /\ Len(smsCalls[2].history) = 2
    /\ Len(smsMessages) = 5
    /\ smsMessages[5] = Apology
    /\ ~smsIsLoading

\* C34: after every step the search history has at most five entries, no two
\* of them equal when letter case is ignored; a search that succeeds puts its
\* query first; starting a search, with a blank query or not, and a search
\* that fails leave the history as it is.
C34_HistoryBounded ==
    [][/\ Len(searchHistory') <= 5
       /\ \A i, j \in DOMAIN searchHistory' :
             ToLowerCase(searchHistory'[i]) = ToLowerCase(searchHistory'[j]) => i = j
       /\ \A q \in LocatorQueries :
             /\ LocatorFound(q) => searchHistory'[1] = q
             /\ LocatorFails(q) => searchHistory' = searchHistory
             /\ LocatorSearch(q) => searchHistory' = searchHistory
             /\ (Trim(q) = <<>> /\ LocatorSearch(q)) => locatorPending' = locatorPending]_vars

\* C34 witness: the history is full, and a search for E has replaced the
\* entry e of it
C34_Witness ==
    /\ Len(searchHistory) = 5
    /\ searchHistory[1] = << "E" >>
    /\ \A i \in DOMAIN searchHistory : searchHistory[i] # << "e" >>
    /\ \E i \in DOMAIN searchHistory : searchHistory[i] = << "s" >>

\* C35 (as claimed): step 3 is entered only together with one call of
\* onSaveDocument; when generateDocument fails, or the translation service
\* fails for the generated document, the step stays as it is, onSaveDocument
\* is not called, the error message is set and isLoading is false; startOver
\* sets step to 1 and clears the document type, the details, the generated
\* document and the error.
C35_FailureKeepsStep ==
    [][/\ (step # 3 /\ step' = 3) => Len(savedDocuments') = Len(savedDocuments) + 1
       /\ \A o \in {"noText", "rejects"} :
             GenerateSettles(o) =>
                /\ step' = step
                /\ savedDocuments' = savedDocuments
                /\ docError' # ""
                /\ ~docIsLoading'
       /\ \A o \in TranslateOutcomes :
             (o.kind \in {"rejects", "noText"} /\ DocTranslated(o)) =>
                /\ step' = step
                /\ savedDocuments' = savedDocuments
                /\ docError' # ""
                /\ ~docIsLoading'
       /\ StartOver =>
             /\ step' = 1
             /\ docTypeKey' = ""
             /\ details' = ""
             /\ generatedDoc' = <<>>
             /\ docError' = ""]_vars

====
